---- MODULE Spec2Model ----
(***************************************************************************)
(* A model of the synthetic market-data and caching core of finapp-ai:     *)
(*   src/src/lib/stocks.ts          the stock-data cache, the seeded       *)
(*                                  generators and the fallback policy     *)
(*   src/src/components/StockQA.tsx (from line 124 on: lib/market)         *)
(*                                  the index quotes and their provider    *)
(*                                                                         *)
(* Conventions.                                                            *)
(*  - A JavaScript string is the sequence of its UTF-16 code units.        *)
(*  - A 32-bit word is the pair <<hi, lo>> of its 16-bit halves (TLC's     *)
(*    integers are 32-bit signed, so a word does not fit in one).          *)
(*  - Date.now() of the stock cache is `now`, in ms since the cache was    *)
(*    created.                                                             *)
(*  - An IEEE double is a fixed-point number: a price is an integer count  *)
(*    of 1/(CentsPerDollar*SubCent) dollars, a PRNG draw u/2^32 is the     *)
(*    grid point d/RndGrid below it.                                       *)
(***************************************************************************)
EXTENDS Integers, Sequences, FiniteSets, TLC

VARIABLES
  now,      \* Date.now() as the stock module sees it (ms)
  mock,     \* process.env.STOCK_DATA_MOCK === '1'
  CACHE,    \* the Map of stocks.ts:63, in iteration order: <<[key, ts, value, since]>>
  pending,  \* the calls suspended at an await: a set of continuations
  last,     \* the call that settled in the last step, if one did (a history variable)
  calls,    \* the number of calls started so far (bounds the run)
  warm,     \* the number of warm-up calls made so far
  evicted,  \* what the setCache of the last step evicted (a history variable)
  gen,      \* generateMockHistory's frame: its locals and loop position
  mkt,      \* getIndexQuote's frame (lib/market)
  earn,     \* generateMockEarnings's frame
  rngs,     \* the closures mulberry32 has returned, and their `let t` cells
  hash,     \* hashStringToInt's frame
  ev,       \* the frame of lib/earnings (part_021): computeSurprise
  tile,     \* getIndexTileQuotes: tileQuoteCache and the call in progress
  rt,       \* MarketOverview (part_019): its state, effects, timers and fetches
  cal,      \* getEarnings's frame (part_021): its locals and loop position
  dm        \* MarketOverview's dataMap and the update applied to it last

vars == <<now, mock, CACHE, pending, last, calls, warm, evicted, gen, mkt,
          earn, rngs, hash, ev, tile, rt, cal, dm>>

pureVars == <<earn, rngs, hash, ev>>

uiVars == <<tile, rt, cal, dm>>

stockVars == <<now, mock, CACHE, pending, last, calls, warm, evicted>>

-----------------------------------------------------------------------------
(* Bounds of the model *)

\* the calls one run starts
MaxCalls == 2
\* the calls suspended at the same time
MaxPending == 2
\* the millisecond ticks in a row
MaxSkew == 1
\* the grid of a PRNG draw: rnd() is one of 0/RndGrid .. (RndGrid-1)/RndGrid
RndGrid == 128
\* the fillers a run inserts beyond MAX_CACHE
FillExtra == 2
\* fixed-point units per cent
SubCent == 100

-----------------------------------------------------------------------------
(* Program constants *)

MAX_CACHE == 200
CACHE_TTL == 300000
CentsPerDollar == 100

-----------------------------------------------------------------------------
(* 32-bit words *)

W16 == 2 ^ 16

Pow2(n) == 2 ^ n

RECURSIVE XorN(_, _, _)
XorN(a, b, n) ==
  IF n = 0 THEN 0
  ELSE (((a % 2) + (b % 2)) % 2) + 2 * XorN(a \div 2, b \div 2, n - 1)

RECURSIVE OrN(_, _, _)
OrN(a, b, n) ==
  IF n = 0 THEN 0
  ELSE (IF a % 2 = 1 \/ b % 2 = 1 THEN 1 ELSE 0) + 2 * OrN(a \div 2, b \div 2, n - 1)

\* ^ and | of two 4-bit numbers, tabulated
XOR4 == [x \in 0..15 |-> [y \in 0..15 |-> XorN(x, y, 4)]]
OR4 == [x \in 0..15 |-> [y \in 0..15 |-> OrN(x, y, 4)]]

\* ^ and | of two 16-bit numbers, nibble by nibble
Xor16(a, b) ==
  XOR4[a % 16][b % 16]
    + (16 * XOR4[(a \div 16) % 16][(b \div 16) % 16])
    + (256 * XOR4[(a \div 256) % 16][(b \div 256) % 16])
    + (4096 * XOR4[a \div 4096][b \div 4096])
Or16(a, b) ==
  OR4[a % 16][b % 16]
    + (16 * OR4[(a \div 16) % 16][(b \div 16) % 16])
    + (256 * OR4[(a \div 256) % 16][(b \div 256) % 16])
    + (4096 * OR4[a \div 4096][b \div 4096])

Word(hi, lo) == <<hi, lo>>
Hi(w) == w[1]
Lo(w) == w[2]

Xor32(a, b) == Word(Xor16(Hi(a), Hi(b)), Xor16(Lo(a), Lo(b)))
Or32(a, b) == Word(Or16(Hi(a), Hi(b)), Or16(Lo(a), Lo(b)))

\* a >>> n, 0 < n < 16
Shr32(a, n) ==
  Word(Hi(a) \div Pow2(n), ((Hi(a) % Pow2(n)) * Pow2(16 - n)) + (Lo(a) \div Pow2(n)))

\* (a + b) mod 2^32
Add32(a, b) ==
  LET lo == Lo(a) + Lo(b)
  IN  Word((Hi(a) + Hi(b) + (lo \div W16)) % W16, lo % W16)

\* the low and high halves of the 32-bit product of two 16-bit numbers
MulLo16(x, y) == (((x % 256) * y) + ((((x \div 256) * y) % 256) * 256)) % W16
MulHi16(x, y) ==
  ((((x % 256) * y) + ((((x \div 256) * y) % 256) * 256)) \div W16)
    + (((x \div 256) * y) \div 256)

\* Math.imul(a, b) >>> 0
Imul(a, b) ==
  Word((MulHi16(Lo(a), Lo(b)) + MulLo16(Hi(a), Lo(b)) + MulLo16(Lo(a), Hi(b))) % W16,
       MulLo16(Lo(a), Lo(b)))

-----------------------------------------------------------------------------
(* Strings: sequences of UTF-16 code units *)

IsUpper(c) == c >= 65 /\ c <= 90
IsLower(c) == c >= 97 /\ c <= 122
IsDigit(c) == c >= 48 /\ c <= 57

\* String.prototype.toUpperCase on the ASCII range
toUpperCase(s) == [i \in 1..Len(s) |-> IF IsLower(s[i]) THEN s[i] - 32 ELSE s[i]]

\* `${n}` for a natural number n
RECURSIVE NumToStr(_)
NumToStr(n) == IF n < 10 THEN <<48 + n>> ELSE NumToStr(n \div 10) \o <<48 + (n % 10)>>

sAAPL == <<65, 65, 80, 76>>
sMSFT == <<77, 83, 70, 84>>
saapl == <<97, 97, 112, 108>>
sBRKB == <<66, 82, 75, 46, 66>>
sBad  == <<65, 36>>
sEmpty == <<>>

sQuoteTag == <<113, 117, 111, 116, 101, 58>>
sHistTag  == <<104, 105, 115, 116, 58>>
sEarnTag  == <<101, 97, 114, 110, 58>>
sNewsTag  == <<110, 101, 119, 115, 58>>
sColon    == <<58>>
sBar      == <<124>>
sQuote    == <<113, 117, 111, 116, 101>>
sEarn     == <<101, 97, 114, 110>>
sNews     == <<110, 101, 119, 115>>

\* the PriceRange literals
RangeStr(r) ==
  CASE r = "1D" -> <<49, 68>>
    [] r = "5D" -> <<53, 68>>
    [] r = "1M" -> <<49, 77>>
    [] r = "3M" -> <<51, 77>>
    [] r = "6M" -> <<54, 77>>
    [] r = "1Y" -> <<49, 89>>
    [] r = "2Y" -> <<50, 89>>
    [] r = "5Y" -> <<53, 89>>

PriceRange == {"1D", "5D", "1M", "3M", "6M", "1Y", "2Y", "5Y"}

-----------------------------------------------------------------------------
(* Seeded RNG *)

\* (mutant of FNV_BASIS: the accumulator started at 0)
ZERO_BASIS == Word(0, 0)

FNV_BASIS == Word(33052, 40389)
FNV_PRIME == Word(256, 403)

RECURSIVE HashFrom(_, _, _)
HashFrom(h, s, i) ==
  IF i > Len(s) THEN h
  ELSE HashFrom(Imul(Xor32(h, Word(0, s[i])), FNV_PRIME), s, i + 1)

hashStringToInt(s) == HashFrom(FNV_BASIS, s, 1)

MULBERRY_INC == Word(27947, 31221)

\* one call of the closure mulberry32 returns: the state it leaves and the word
\* it returns (before the division by 2^32)
mulberry32(t) ==
  LET t1 == Add32(t, MULBERRY_INC)
      r1 == Imul(Xor32(t1, Shr32(t1, 15)), Or32(t1, Word(0, 1)))
      r2 == Xor32(r1, Add32(r1, Imul(Xor32(r1, Shr32(r1, 7)), Or32(r1, Word(0, 61)))))
  IN  [t |-> t1, out |-> Xor32(r2, Shr32(r2, 14))]

\* rnd() = out / 4294967296, on the grid: floor(rnd * RndGrid)
Draw(out) == (Hi(out) * RndGrid) \div W16

-----------------------------------------------------------------------------
(* The values the stock functions return.  A value is what identifies the
   object a generator (or the provider) built: its kind, where it came from,
   the symbol and parameter it was built for, and the Date.now() it was built
   at (Quote.lastUpdated, the last candle's t, ...).  Every such object is
   truthy; Null is getCache's null. *)

Null == [kind |-> "null", src |-> "none", symbol |-> <<>>, par |-> <<>>, at |-> 0]

Truthy(v) == v # Null

MkMockValue(kind, symbol, par, t) ==
  [kind |-> kind, src |-> "mock", symbol |-> symbol, par |-> par, at |-> t]

generateMockQuote(symbol, t) == MkMockValue("quote", symbol, <<>>, t)

generateMockHistoryValue(symbol, range, t) == MkMockValue("hist", symbol, RangeStr(range), t)

generateMockEarnings(symbol, t) == MkMockValue("earn", symbol, <<>>, t)

generateMockNews(symbol, limit, t) == MkMockValue("news", symbol, NumToStr(limit), t)

\* what an integrated provider would hand back; the placeholder of
\* stocks.ts:241 always throws
ProviderValue(kind, symbol, par, t) ==
  [kind |-> kind, src |-> "provider", symbol |-> symbol, par |-> par, at |-> t]

ProviderOutcomes == {"throw", "data"}

-----------------------------------------------------------------------------
(* sanitizeSymbol *)

SymbolChar(c) == IsUpper(c) \/ IsDigit(c) \/ c = 46 \/ c = 45

\* (mutant of sanitizeSymbol: every symbol is let through)
acceptAnySymbol(raw) == [ok |-> TRUE, s |-> toUpperCase(raw), err |-> ""]

sanitizeSymbol(raw) ==
  IF raw = <<>> THEN [ok |-> FALSE, s |-> <<>>, err |-> "Missing symbol"]
  ELSE LET s == toUpperCase(raw)
       IN  IF \A i \in 1..Len(s) : SymbolChar(s[i])
           THEN [ok |-> TRUE, s |-> s, err |-> ""]
           ELSE [ok |-> FALSE, s |-> <<>>, err |-> "Invalid symbol"]

-----------------------------------------------------------------------------
(* The Map of the stock cache, in iteration order *)

MapIndex(C, key) ==
  IF \E i \in 1..Len(C) : C[i].key = key
  THEN CHOOSE i \in 1..Len(C) : C[i].key = key
  ELSE 0

MapHas(C, key) == MapIndex(C, key) # 0

MapDelete(C, key) ==
  LET i == MapIndex(C, key)
  IN  IF i = 0 THEN C ELSE SubSeq(C, 1, i - 1) \o SubSeq(C, i + 1, Len(C))

\* Map.prototype.set: a key already present keeps its place.  `since` is a
\* history field: when the key entered the map (a later set of the same key
\* leaves it alone).
MapSet(C, key, ts, value) ==
  LET i == MapIndex(C, key)
  IN  IF i = 0
      THEN Append(C, [key |-> key, ts |-> ts, value |-> value, since |-> ts])
      ELSE [C EXCEPT ![i] = [key |-> key, ts |-> ts, value |-> value, since |-> C[i].since]]

\* (mutants of Expired: the TTL read in seconds; the boundary taken as expired)
ExpiredInSeconds(entry, t) == t - entry.ts > CACHE_TTL \div 1000
ExpiredAtTtl(entry, t) == t - entry.ts >= CACHE_TTL

\* stocks.ts:70
Expired(entry, t) == t - entry.ts > CACHE_TTL

\* getCache: the value it returns and the map it leaves
getCache(C, key, t) ==
  LET i == MapIndex(C, key)
  IN  IF i = 0 THEN [value |-> Null, map |-> C]
      ELSE IF Expired(C[i], t) THEN [value |-> Null, map |-> MapDelete(C, key)]
      ELSE [value |-> C[i].value, map |-> C]

\* (mutant of OverCapacity: the size never tested)
NeverOverCapacity(C) == FALSE

\* stocks.ts:78
OverCapacity(C) == Len(C) > MAX_CACHE

\* (mutant of FirstKey: the newest key goes)
LastKey(C) == C[Len(C)].key

\* stocks.ts:80-82: the key setCache evicts
FirstKey(C) == C[1].key

NoEviction == [any |-> FALSE, key |-> <<>>, ts |-> 0, since |-> 0, minTs |-> 0, minSince |-> 0]

SetMin(S) == CHOOSE m \in S : \A x \in S : m <= x

MinTs(C) == SetMin({C[i].ts : i \in 1..Len(C)})

MinSince(C) == SetMin({C[i].since : i \in 1..Len(C)})

\* what setCache evicts from C (a history record)
Eviction(C) ==
  IF OverCapacity(C) /\ Len(C) > 0
  THEN LET e == C[MapIndex(C, FirstKey(C))]
       IN  [any |-> TRUE, key |-> e.key, ts |-> e.ts, since |-> e.since,
            minTs |-> MinTs(C), minSince |-> MinSince(C)]
  ELSE NoEviction

\* setCache: the map it leaves
setCache(C, key, value, t) ==
  LET C1 == IF OverCapacity(C) /\ Len(C) > 0 THEN MapDelete(C, FirstKey(C)) ELSE C
  IN  MapSet(C1, key, t, value)

-----------------------------------------------------------------------------
(* The public API of stocks.ts: getQuote, getPriceHistory, getEarningsHistory
   and getNews.  The four share one shape; `op` names the function. *)

Ops == {"getQuote", "getPriceHistory", "getEarningsHistory", "getNews"}

KindOf(op) ==
  CASE op = "getQuote" -> "quote"
    [] op = "getPriceHistory" -> "hist"
    [] op = "getEarningsHistory" -> "earn"
    [] op = "getNews" -> "news"

\* the `key` of each function
KeyOf(op, symbol, range, limit) ==
  CASE op = "getQuote" -> sQuoteTag \o symbol
    [] op = "getPriceHistory" -> sHistTag \o symbol \o sColon \o RangeStr(range)
    [] op = "getEarningsHistory" -> sEarnTag \o symbol
    [] op = "getNews" -> sNewsTag \o symbol \o sColon \o NumToStr(limit)

ParOf(op, range, limit) ==
  CASE op = "getPriceHistory" -> RangeStr(range)
    [] op = "getNews" -> NumToStr(limit)
    [] OTHER -> <<>>

\* the synthetic generator each function calls
Generate(op, symbol, range, limit, t) ==
  CASE op = "getQuote" -> generateMockQuote(symbol, t)
    [] op = "getPriceHistory" -> generateMockHistoryValue(symbol, range, t)
    [] op = "getEarningsHistory" -> generateMockEarnings(symbol, t)
    [] op = "getNews" -> generateMockNews(symbol, limit, t)

\* getQuote and getPriceHistory call fetchFromProvider when mock mode is off;
\* getEarningsHistory and getNews call their generator inside the try
CallsProvider(op) == op \in {"getQuote", "getPriceHistory"}

\* (mutant of GoesToProvider: the mock flag is not looked at)
GoesToProviderAlways(m, op) == CallsProvider(op)

\* `if (mock) {...}` comes first: the provider is asked only with mock mode off
GoesToProvider(m, op) == ~m /\ CallsProvider(op)

\* (mutant of FallbackValue: the catch block swallows the error and returns nothing)
FallbackValueNone(op, symbol, range, limit, t) == Null

\* what the catch block of a function returns after the provider threw
FallbackValue(op, symbol, range, limit, t) == Generate(op, symbol, range, limit, t)

\* a promise rejects with the error sanitizeSymbol throws
RejectsOn(sane) == ~sane.ok

\* The record of a call: what it was asked, where it stands, and what it did
\* (the history fields of the claims: which cache entry it found, how often it
\* called the provider and the generator, what the cache held when it returned).
Idle ==
  [id |-> 0, op |-> "none", raw |-> <<>>, symbol |-> <<>>, range |-> "", limit |-> 0,
   key |-> <<>>, outcome |-> "none", result |-> Null, hit |-> FALSE,
   found |-> FALSE, age |-> 0, held |-> Null, provCalls |-> 0, genCalls |-> 0, provOutcome |-> "none",
   genAt |-> 0, cacheSame |-> TRUE, stored |-> FALSE, repeatOf |-> Null,
   missMock |-> FALSE, overview |-> FALSE, overviewDone |-> FALSE]

\* the inputs of the model
RawSymbols == {sAAPL, saapl, sBad}
CallRanges == {"1Y"}
CallLimits == {5}

RangesOf(op) == IF op = "getPriceHistory" THEN CallRanges ELSE {""}
LimitsOf(op) == IF op = "getNews" THEN CallLimits ELSE {0}

\* the result of the call that settled in the step before this one, when this
\* call asks for the same key (history: "two calls in immediate succession")
RepeatOf(key) ==
  IF last.outcome = "resolved" /\ last.key = key THEN last.result ELSE Null

\* the smallest id no suspended call holds
FreeId == CHOOSE i \in 1..(Cardinality(pending) + 1) : \A p \in pending : p.id # i

\* a call whose symbol sanitizeSymbol refuses: the promise rejects
CallReject(op, raw, range, limit) ==
  /\ calls < MaxCalls
  /\ RejectsOn(sanitizeSymbol(raw))
  /\ calls' = calls + 1
  /\ last' = [Idle EXCEPT !.op = op, !.raw = raw, !.range = range, !.limit = limit,
                          !.outcome = "rejected"]
  /\ evicted' = NoEviction
  /\ UNCHANGED <<now, mock, CACHE, pending, warm, gen, mkt, pureVars, uiVars>>

\* a call that finds its key in the cache: `if (cached) return cached`
CallHit(op, raw, range, limit) ==
  LET sane == sanitizeSymbol(raw)
      key == KeyOf(op, sane.s, range, limit)
      got == getCache(CACHE, key, now)
      i == MapIndex(CACHE, key)
  IN  /\ calls < MaxCalls
      /\ ~RejectsOn(sane)
      /\ Truthy(got.value)
      /\ calls' = calls + 1
      /\ CACHE' = got.map
      /\ last' = [Idle EXCEPT !.op = op, !.raw = raw, !.symbol = sane.s,
                    !.range = range, !.limit = limit, !.key = key,
                    !.outcome = "resolved", !.result = got.value, !.hit = TRUE,
                    !.found = TRUE, !.age = now - CACHE[i].ts, !.held = CACHE[i].value,
                    !.cacheSame = (got.map = CACHE),
                    !.repeatOf = RepeatOf(key)]
      /\ evicted' = NoEviction
      /\ UNCHANGED <<now, mock, pending, warm, gen, mkt, pureVars, uiVars>>

\* a call that misses: it runs up to its first await.  In mock mode (and in
\* getEarningsHistory and getNews always) that is `await generateMock...`,
\* whose body has run; otherwise it is `await fetchFromProvider(...)`.
CallMiss(op, raw, range, limit, out) ==
  LET sane == sanitizeSymbol(raw)
      key == KeyOf(op, sane.s, range, limit)
      got == getCache(CACHE, key, now)
      i == MapIndex(CACHE, key)
      toProvider == GoesToProvider(mock, op)
  IN  /\ calls < MaxCalls
      /\ Cardinality(pending) < MaxPending
      /\ ~RejectsOn(sane)
      /\ ~Truthy(got.value)
      /\ out \in (IF toProvider THEN ProviderOutcomes ELSE {"none"})
      /\ calls' = calls + 1
      /\ CACHE' = got.map
      /\ pending' = pending \cup
           {[Idle EXCEPT !.id = FreeId, !.op = op, !.raw = raw, !.symbol = sane.s,
               !.range = range, !.limit = limit, !.key = key,
               !.outcome = IF toProvider THEN "provider" ELSE "gen",
               !.result = IF toProvider THEN Null
                          ELSE Generate(op, sane.s, range, limit, now),
               !.provCalls = IF toProvider THEN 1 ELSE 0,
               !.genCalls = IF toProvider THEN 0 ELSE 1,
               !.provOutcome = out, !.genAt = IF toProvider THEN 0 ELSE now,
               !.missMock = mock]}
      /\ last' = [Idle EXCEPT !.op = op, !.raw = raw, !.symbol = sane.s, !.range = range,
                    !.limit = limit, !.key = key, !.outcome = "suspended",
                    !.found = (i # 0), !.age = IF i # 0 THEN now - CACHE[i].ts ELSE 0,
                    !.held = IF i # 0 THEN CACHE[i].value ELSE Null,
                    !.provCalls = IF toProvider THEN 1 ELSE 0,
                    !.genCalls = IF toProvider THEN 0 ELSE 1,
                    !.cacheSame = (got.map = CACHE), !.repeatOf = RepeatOf(key)]
      /\ evicted' = NoEviction
      /\ UNCHANGED <<now, mock, warm, gen, mkt, pureVars, uiVars>>

\* the record of a call that has settled
Settled(p, v, C2) ==
  [p EXCEPT !.id = 0, !.outcome = "resolved", !.result = v,
            !.cacheSame = (C2 = CACHE),
            !.overviewDone = (p.overview /\ \A q \in pending \ {p} : ~q.overview),
            !.stored = (MapHas(C2, p.key) /\ C2[MapIndex(C2, p.key)].value = v)]

\* the provider's promise settled with data: setCache(key, q); return q
ResumeProviderData(p) ==
  LET v == ProviderValue(KindOf(p.op), p.symbol, ParOf(p.op, p.range, p.limit), now)
      C2 == setCache(CACHE, p.key, v, now)
  IN  /\ p \in pending
      /\ p.outcome = "provider"
      /\ p.provOutcome = "data"
      /\ pending' = pending \ {p}
      /\ evicted' = Eviction(CACHE)
      /\ CACHE' = C2
      /\ last' = Settled(p, v, C2)
      /\ UNCHANGED <<now, mock, calls, warm, gen, mkt, pureVars, uiVars>>

\* the provider's promise rejected: the catch block calls the generator and
\* suspends at `await generateMock...`
ResumeProviderThrow(p) ==
  /\ p \in pending
  /\ p.outcome = "provider"
  /\ p.provOutcome = "throw"
  /\ pending' = (pending \ {p}) \cup
       {[p EXCEPT !.outcome = "gen",
                  !.result = FallbackValue(p.op, p.symbol, p.range, p.limit, now),
                  !.genCalls = p.genCalls + 1, !.genAt = now]}
  /\ last' = Idle
  /\ evicted' = NoEviction
  /\ UNCHANGED <<now, mock, CACHE, calls, warm, gen, mkt, pureVars, uiVars>>

\* the generator's promise settled: setCache(key, q); return q
ResumeGenerated(p) ==
  LET C2 == setCache(CACHE, p.key, p.result, now)
  IN  /\ p \in pending
      /\ p.outcome = "gen"
      /\ pending' = pending \ {p}
      /\ evicted' = Eviction(CACHE)
      /\ CACHE' = C2
      /\ last' = Settled(p, p.result, C2)
      /\ UNCHANGED <<now, mock, calls, warm, gen, mkt, pureVars, uiVars>>

\* getStockOverview (stocks.ts:341-353).  After sanitizeSymbol it calls
\* getQuote, getPriceHistory and getEarningsHistory with the sanitized symbol,
\* one after the other within the same task: each runs up to its first await
\* (a hit returns, a miss suspends) before the next starts.  The call returns
\* once the three have: overviewDone marks the step in which the last one does.
OverviewOps == <<"getQuote", "getPriceHistory", "getEarningsHistory">>

\* symbols no function accepts: "", "a b", "A" followed by a line feed
RejectedSymbols == {sEmpty, <<97, 32, 98>>, <<65, 10>>}

FreeIdIn(P) == CHOOSE i \in 1..(Cardinality(P) + 1) : \A p \in P : p.id # i

\* one of the three calls, from the cache C and the suspended calls P it finds
SubCall(st, op, s, range, out) ==
  LET key == KeyOf(op, s, range, 0)
      got == getCache(st.C, key, now)
      toProvider == GoesToProvider(mock, op)
  IN  IF Truthy(got.value)
      THEN [st EXCEPT !.C = got.map]
      ELSE [st EXCEPT
              !.C = got.map,
              !.P = @ \cup
                {[Idle EXCEPT !.id = FreeIdIn(st.P), !.op = op, !.raw = s, !.symbol = s,
                    !.range = range, !.key = key,
                    !.outcome = IF toProvider THEN "provider" ELSE "gen",
                    !.result = IF toProvider THEN Null ELSE Generate(op, s, range, 0, now),
                    !.provCalls = IF toProvider THEN 1 ELSE 0,
                    !.genCalls = IF toProvider THEN 0 ELSE 1,
                    !.provOutcome = IF toProvider THEN out ELSE "none",
                    !.genAt = IF toProvider THEN 0 ELSE now,
                    !.missMock = mock, !.overview = TRUE]},
              !.prov = @ + (IF toProvider THEN 1 ELSE 0),
              !.gen = @ + (IF toProvider THEN 0 ELSE 1),
              !.open = @ + 1]

OverviewValue(symbol, range, t) ==
  [kind |-> "overview", src |-> "calls", symbol |-> symbol, par |-> RangeStr(range), at |-> t]

OverviewCall(raw, range, outQ, outH) ==
  LET sane == sanitizeSymbol(raw)
      st0 == [C |-> CACHE, P |-> pending, prov |-> 0, gen |-> 0, open |-> 0]
      st1 == SubCall(st0, OverviewOps[1], sane.s, "", outQ)
      st2 == SubCall(st1, OverviewOps[2], sane.s, range, outH)
      st3 == SubCall(st2, OverviewOps[3], sane.s, "", "none")
  IN  /\ calls < MaxCalls
      /\ Cardinality(pending) < MaxPending
      /\ \A p \in pending : ~p.overview
      /\ calls' = calls + 1
      /\ evicted' = NoEviction
      /\ IF RejectsOn(sane)
         THEN /\ last' = [Idle EXCEPT !.op = "getStockOverview", !.raw = raw,
                                      !.range = range, !.outcome = "rejected"]
              /\ UNCHANGED <<CACHE, pending>>
         ELSE /\ CACHE' = st3.C
              /\ pending' = st3.P
              /\ last' = [Idle EXCEPT
                            !.op = "getStockOverview", !.raw = raw, !.symbol = sane.s,
                            !.range = range,
                            !.outcome = IF st3.open = 0 THEN "resolved" ELSE "suspended",
                            !.result = IF st3.open = 0
                                       THEN OverviewValue(sane.s, range, now) ELSE Null,
                            !.provCalls = st3.prov, !.genCalls = st3.gen,
                            !.cacheSame = (st3.C = CACHE),
                            !.overviewDone = (st3.open = 0)]
      /\ UNCHANGED <<now, mock, warm, gen, mkt, pureVars, uiVars>>

\* time passes: by a millisecond (at most MaxSkew times in a row), or by the
\* cache's TTL (once, and while no call is suspended: a call stays suspended
\* for milliseconds)
TickSteps == {1, CACHE_TTL}

Tick(d) ==
  /\ d = 1 => now % CACHE_TTL < MaxSkew
  /\ d = CACHE_TTL => (now < CACHE_TTL /\ pending = {})
  /\ now' = now + d
  /\ last' = Idle
  /\ evicted' = NoEviction
  /\ UNCHANGED <<mock, CACHE, pending, calls, warm, gen, mkt, pureVars, uiVars>>

\* A warm-up: n getQuote calls for n tickers never asked for before ("F1",
\* "F2", ...), each awaited before the next starts, all within one millisecond.
\* Each of them misses, generates (after the provider threw, when mock mode is
\* off) and ends in setCache(key, q).  `warm` counts them.  The first warm-up
\* is a bulk of MAX_CACHE - 1 calls, the later ones are single calls.
FillerSymbol(i) == <<70>> \o NumToStr(i)

\* the calls i .. i+n-1, one after the other (the first half, then the rest)
RECURSIVE WarmFrom(_, _, _, _)
WarmFrom(C, i, n, t) ==
  IF n = 0 THEN C
  ELSE IF n = 1
  THEN setCache(C, KeyOf("getQuote", FillerSymbol(i), "", 0),
                generateMockQuote(FillerSymbol(i), t), t)
  ELSE LET D == WarmFrom(C, i, n \div 2, t)
       IN  IF Len(D) >= 0 THEN WarmFrom(D, i + (n \div 2), n - (n \div 2), t) ELSE <<>>

WarmSize == IF warm = 0 THEN MAX_CACHE - 1 ELSE 1

Warm ==
  LET n == WarmSize
      C1 == WarmFrom(CACHE, warm + 1, n - 1, now)
      C2 == WarmFrom(C1, warm + n, 1, now)
  IN  /\ warm + n <= MAX_CACHE + FillExtra
      /\ CACHE' = C2
      /\ evicted' = Eviction(C1)
      /\ warm' = warm + n
      /\ last' = Idle
      /\ UNCHANGED <<now, mock, pending, calls, gen, mkt, pureVars, uiVars>>

-----------------------------------------------------------------------------
(* generateMockHistory (stocks.ts:160-202), statement by statement.  Its
   times are in seconds (a duration in ms does not fit TLC's integers): now
   is Date.now() to the second, step and the durations are the source's
   products without the final `* 1000`. *)

GenSymbols == {sAAPL, sBRKB}
GenNows == {1700000000, 1700000059}

rangeToMinutes(range) ==
  CASE range = "1D" -> 5
    [] range = "5D" -> 15
    [] range = "1M" -> 60 * 24
    [] range = "6M" -> 60 * 24
    [] range = "1Y" -> 60 * 24
    [] range = "5Y" -> 60 * 24 * 7
    [] OTHER -> 60 * 24

\* durationMs / 1000
durationSec(range) ==
  CASE range = "1D" -> 24 * 60 * 60
    [] range = "5D" -> 5 * 24 * 60 * 60
    [] range = "1M" -> 30 * 24 * 60 * 60
    [] range = "3M" -> 90 * 24 * 60 * 60
    [] range = "6M" -> 180 * 24 * 60 * 60
    [] range = "1Y" -> 365 * 24 * 60 * 60
    [] range = "2Y" -> 2 * 365 * 24 * 60 * 60
    [] range = "5Y" -> 5 * 365 * 24 * 60 * 60
    [] OTHER -> 180 * 24 * 60 * 60

\* step / 1000
stepSec(range) == rangeToMinutes(range) * 60

Max(a, b) == IF a >= b THEN a ELSE b
Min(a, b) == IF a <= b THEN a ELSE b
Ceil(a, b) == (a + (b - 1)) \div b

\* Math.max(10, Math.ceil(durationMs / step))
points(range) == Max(10, Ceil(durationSec(range), stepSec(range)))

\* a whole number of dollars as a price
Dollars(n) == n * CentsPerDollar * SubCent

\* BASE_PRICE[symbol] ?? 100
BASE_PRICE(symbol) ==
  CASE symbol = sAAPL -> Dollars(175)
    [] symbol = sMSFT -> Dollars(420)
    [] symbol = <<65, 77, 90, 78>> -> Dollars(165)
    [] symbol = <<84, 83, 76, 65>> -> Dollars(260)
    [] symbol = <<71, 79, 79, 71, 76>> -> Dollars(150)
    [] symbol = <<78, 86, 68, 65>> -> Dollars(1100)
    [] OTHER -> Dollars(100)

\* x * (1 + (rnd - 0.5) * k), with k = 2 / perHalf and rnd = d / RndGrid
Jitter(x, d, perHalf) == x + ((x * ((2 * d) - RndGrid)) \div (RndGrid * perHalf))

\* x * (1 + rnd * 0.002) and x * (1 - rnd * 0.002)
PadUp(x, d) == x + ((x * d) \div (RndGrid * 500))
PadDown(x, d) == x - ((x * d) \div (RndGrid * 500))

\* Number(x.toFixed(2)): the nearest whole number of cents, a half away from 0
toFixed2(x) ==
  IF x >= 0 THEN ((x + (SubCent \div 2)) \div SubCent) * SubCent
  ELSE 0 - ((((0 - x) + (SubCent \div 2)) \div SubCent) * SubCent)

\* Math.round(1000 + rnd * 1000000)
Volume(d) == 1000 + (((2 * d * 1000000) + RndGrid) \div (2 * RndGrid))

\* (mutant of CandleTime: the loop index counted from the wrong end)
CandleTimeForward(t, i, step) == t + (i * step)

\* stocks.ts:192  const t = now - i * step
CandleTime(t, i, step) == t - (i * step)

\* (mutant of High: Math.max(o, c) taken to be o)
HighOfOpen(o, c, d) == toFixed2(PadUp(o, d))

\* stocks.ts:195, 198  h = Math.max(o, c) * (1 + rnd() * 0.002), then toFixed(2)
High(o, c, d) == toFixed2(PadUp(Max(o, c), d))

\* stocks.ts:196, 198  l = Math.min(o, c) * (1 - rnd() * 0.002), then toFixed(2)
Low(o, c, d) == toFixed2(PadDown(Min(o, c), d))

\* the frame at rest
GenIdle ==
  [pc |-> "idle", symbol |-> <<>>, range |-> "", now |-> 0, step |-> 0, points |-> 0,
   i |-> 0, price |-> 0, rnd |-> Word(0, 0), candles |-> <<>>]

\* stocks.ts:161-190: the statements before the loop
GenCall(symbol, range, t) ==
  /\ gen.pc = "idle"
  /\ LET seed == hashStringToInt(symbol \o sBar \o RangeStr(range))
         r0 == mulberry32(seed)
     IN  gen' = [pc |-> "loop", symbol |-> symbol, range |-> range, now |-> t,
                 step |-> stepSec(range), points |-> points(range),
                 i |-> points(range),
                 price |-> Jitter(BASE_PRICE(symbol), Draw(r0.out), 100),
                 rnd |-> r0.t, candles |-> <<>>]
  /\ UNCHANGED <<stockVars, mkt, pureVars, uiVars>>

\* stocks.ts:191-200: one iteration of `for (let i = points; i >= 0; i--)`
GenStep ==
  /\ gen.pc = "loop"
  /\ gen.i >= 0
  /\ LET r1 == mulberry32(gen.rnd)
         r2 == mulberry32(r1.t)
         r3 == mulberry32(r2.t)
         r4 == mulberry32(r3.t)
         r5 == mulberry32(r4.t)
         o == toFixed2(Jitter(gen.price, Draw(r1.out), 1000))
         c == toFixed2(Jitter(o, Draw(r2.out), 200))
         candle == [t |-> CandleTime(gen.now, gen.i, gen.step), o |-> o,
                    h |-> High(o, c, Draw(r3.out)), l |-> Low(o, c, Draw(r4.out)),
                    c |-> c, v |-> Volume(Draw(r5.out))]
     IN  gen' = [gen EXCEPT !.candles = Append(@, candle), !.price = c,
                            !.rnd = r5.t, !.i = @ - 1]
  /\ UNCHANGED <<stockVars, mkt, pureVars, uiVars>>

\* stocks.ts:201: the loop is over, the candles are returned
GenReturn ==
  /\ gen.pc = "loop"
  /\ gen.i < 0
  /\ gen' = [gen EXCEPT !.pc = "done"]
  /\ UNCHANGED <<stockVars, mkt, pureVars, uiVars>>

\* the caller has its candles: the frame is gone
GenDrop ==
  /\ gen.pc = "done"
  /\ gen' = GenIdle
  /\ UNCHANGED <<stockVars, mkt, pureVars, uiVars>>

-----------------------------------------------------------------------------
(* generateMockEarnings (stocks.ts:204-219).  A Date is its local calendar
   date [y, m, d], m from 0 as in JavaScript; the time of day is the same in
   all the dates of one call, so what toISOString makes of it is a shift of
   the calendar date by -1, 0 or 1 day, which may differ between the months
   with and without daylight saving. *)

IsLeap(y) == (y % 4 = 0 /\ y % 100 # 0) \/ y % 400 = 0

DaysInMonth(y, m) ==
  IF m = 1 THEN (IF IsLeap(y) THEN 29 ELSE 28)
  ELSE IF m \in {3, 5, 8, 10} THEN 30 ELSE 31

Date(y, m, d) == [y |-> y, m |-> m, d |-> d]

\* a date whose day may lie past the end of its month, as Date keeps it
Normalize(y, m, d) ==
  IF d <= DaysInMonth(y, m) THEN Date(y, m, d)
  ELSE IF m = 11 THEN Date(y + 1, 0, d - DaysInMonth(y, m))
  ELSE Date(y, m + 1, d - DaysInMonth(y, m))

\* d.setMonth(mi), mi any integer
setMonth(date, mi) == Normalize(date.y + (mi \div 12), mi % 12, date.d)

\* the date one day before and one day after
DayBefore(date) ==
  IF date.d > 1 THEN Date(date.y, date.m, date.d - 1)
  ELSE IF date.m = 0 THEN Date(date.y - 1, 11, 31)
  ELSE Date(date.y, date.m - 1, DaysInMonth(date.y, date.m - 1))
DayAfter(date) == Normalize(date.y, date.m, date.d + 1)

\* the zones: the shift of the UTC date against the local one, without and
\* with daylight saving
Zones ==
  { [std |-> 0, dst |-> 0], [std |-> -1, dst |-> -1], [std |-> 1, dst |-> 1],
    [std |-> 0, dst |-> -1], [std |-> 1, dst |-> 0] }

InDst(date) == date.m \in 3..9

\* d.toISOString().slice(0, 10): the UTC date, as the number yyyymmdd (which
\* orders as the string does)
IsoDate(date, zone) ==
  LET shift == IF InDst(date) THEN zone.dst ELSE zone.std
      utc == IF shift = -1 THEN DayBefore(date)
             ELSE IF shift = 1 THEN DayAfter(date) ELSE date
  IN  (utc.y * 10000) + ((utc.m + 1) * 100) + utc.d

\* Math.ceil((d.getMonth() + 1) / 3)
QuarterOf(date) == Ceil(date.m + 1, 3)

\* (mutant of Reverse: the quarters returned as generated, newest first)
NotReversed(q) == q

\* Array.prototype.reverse
Reverse(q) == [k \in 1..Len(q) |-> q[Len(q) + 1 - k]]

EarnYear == 2024
EarnDates ==
  {dt \in [y : {EarnYear}, m : 0..11, d : 1..31] : dt.d <= DaysInMonth(dt.y, dt.m)}
QUARTERS == 8

EarnIdle ==
  [pc |-> "idle", symbol |-> <<>>, now |-> Date(0, 0, 1), zone |-> [std |-> 0, dst |-> 0],
   i |-> 0, rnd |-> Word(0, 0), quarters |-> <<>>]

\* stocks.ts:205-208: the statements before the loop
EarnCall(symbol, date, zone) ==
  /\ earn.pc = "idle"
  /\ earn' = [EarnIdle EXCEPT !.pc = "loop", !.symbol = symbol, !.now = date,
                              !.zone = zone,
                              !.rnd = hashStringToInt(symbol \o sBar \o sEarn)]
  /\ UNCHANGED <<stockVars, gen, mkt, rngs, hash, ev, uiVars>>

\* stocks.ts:209-217: one iteration of `for (let i = 0; i < 8; i++)`
EarnStep ==
  /\ earn.pc = "loop"
  /\ earn.i < QUARTERS
  /\ LET d == setMonth(earn.now, earn.now.m - (earn.i * 3))
         r1 == mulberry32(earn.rnd)
         r2 == mulberry32(r1.t)
         epsEst == toFixed2((3 * Dollars(1) * Draw(r1.out)) \div RndGrid)
         epsAct == toFixed2(epsEst
                            + ((Dollars(1) * ((2 * Draw(r2.out)) - RndGrid)) \div (4 * RndGrid)))
         quarter == [q |-> QuarterOf(d), year |-> d.y, date |-> IsoDate(d, earn.zone),
                     epsEstimate |-> epsEst, epsActual |-> epsAct]
     IN  earn' = [earn EXCEPT !.quarters = Append(@, quarter), !.rnd = r2.t, !.i = @ + 1]
  /\ UNCHANGED <<stockVars, gen, mkt, rngs, hash, ev, uiVars>>

\* stocks.ts:218: return quarters.reverse()
EarnReturn ==
  /\ earn.pc = "loop"
  /\ earn.i >= QUARTERS
  /\ earn' = [earn EXCEPT !.pc = "done", !.quarters = Reverse(@)]
  /\ UNCHANGED <<stockVars, gen, mkt, rngs, hash, ev, uiVars>>

\* the caller has its quarters: the frame is gone
EarnDrop ==
  /\ earn.pc = "done"
  /\ earn' = EarnIdle
  /\ UNCHANGED <<stockVars, gen, mkt, rngs, hash, ev, uiVars>>

-----------------------------------------------------------------------------
(* The closures of mulberry32 (stocks.ts:96-104).  Each call of mulberry32
   declares a `let t`, a cell; the closure it returns reads and writes that
   cell.  rngs.cells are the cells, rngs.inst the closures: the seed each was
   built from, its cell, and the words it has returned so far (the value
   returned is the word divided by 2^32, which is exact). *)

\* the closures one run builds, and the draws from each
MaxRngs == 3
MaxDraws == 3

Seeds == {Word(0, 0), Word(37161, 7791), Word(65535, 65535)}

NoRngs == [cells |-> <<>>, inst |-> <<>>]

\* (mutant of NewCell: `t` declared once, outside the function)
SharedCell(R) == 1

\* stocks.ts:97  `let t`: a fresh cell for each call
NewCell(R) == Len(R.cells) + 1

\* stocks.ts:96-98: mulberry32(seed) returns a closure
RngNew(seed) ==
  /\ Len(rngs.inst) < MaxRngs
  /\ LET c == NewCell(rngs)
     IN  rngs' = [cells |-> IF c > Len(rngs.cells) THEN Append(rngs.cells, seed)
                            ELSE [rngs.cells EXCEPT ![c] = seed],
                  inst |-> Append(rngs.inst, [seed |-> seed, cell |-> c, out |-> <<>>])]
  /\ UNCHANGED <<stockVars, gen, mkt, earn, hash, ev, uiVars>>

\* stocks.ts:98-103: one call of closure id
RngDraw(id) ==
  /\ Len(rngs.inst[id].out) < MaxDraws
  /\ LET c == rngs.inst[id].cell
         r == mulberry32(rngs.cells[c])
     IN  rngs' = [cells |-> [rngs.cells EXCEPT ![c] = r.t],
                  inst |-> [rngs.inst EXCEPT ![id].out = Append(@, r.out)]]
  /\ UNCHANGED <<stockVars, gen, mkt, earn, hash, ev, uiVars>>

-----------------------------------------------------------------------------
(* hashStringToInt (stocks.ts:88-95), character by character.  hs keeps the
   value of h after each iteration. *)

\* the longest string hashed
MaxHashLen == 3

\* the code units tried: NUL, a letter, the ends of the 8-bit and 16-bit
\* ranges, and one in between
HashChars == {0, 65, 255, 8364, 65535}

HashStrings == UNION {[1..n -> HashChars] : n \in 0..MaxHashLen}

HashIdle == [pc |-> "idle", s |-> <<>>, i |-> 0, h |-> Word(0, 0), hs |-> <<>>]

\* stocks.ts:89  let h = 2166136261 >>> 0
HashCall(str) ==
  /\ hash.pc = "idle"
  /\ hash' = [pc |-> "loop", s |-> str, i |-> 0, h |-> FNV_BASIS, hs |-> <<FNV_BASIS>>]
  /\ UNCHANGED <<stockVars, gen, mkt, earn, rngs, ev, uiVars>>

\* stocks.ts:90-93: one iteration of the loop
HashStep ==
  /\ hash.pc = "loop"
  /\ hash.i < Len(hash.s)
  /\ LET h1 == Xor32(hash.h, Word(0, hash.s[hash.i + 1]))
         h2 == Imul(h1, FNV_PRIME)
     IN  hash' = [hash EXCEPT !.h = h2, !.hs = Append(@, h2), !.i = @ + 1]
  /\ UNCHANGED <<stockVars, gen, mkt, earn, rngs, ev, uiVars>>

\* stocks.ts:94  return h >>> 0
HashReturn ==
  /\ hash.pc = "loop"
  /\ hash.i >= Len(hash.s)
  /\ hash' = [hash EXCEPT !.pc = "done"]
  /\ UNCHANGED <<stockVars, gen, mkt, earn, rngs, ev, uiVars>>

\* the caller has its number
HashDrop ==
  /\ hash.pc = "done"
  /\ hash' = HashIdle
  /\ UNCHANGED <<stockVars, gen, mkt, earn, rngs, ev, uiVars>>

-----------------------------------------------------------------------------
(* computeSurprise (part_021:93-97).  A JavaScript value is [k, v]: null,
   undefined, a number (v, in cents for an EPS and in 1/100 of a percent for
   a surprise), NaN or an infinity. *)

Js(k, v) == [k |-> k, v |-> v]

Nullish(x) == x.k \in {"null", "undefined"}

Abs(n) == IF n >= 0 THEN n ELSE 0 - n

\* n / d to the nearest integer, a half away from 0, as toFixed rounds (d > 0)
RoundDiv(n, d) ==
  IF n >= 0 THEN ((2 * n) + d) \div (2 * d) ELSE 0 - ((((0 - 2) * n) + d) \div (2 * d))

\* (mutant of ReturnsNull: the test of the estimate against 0 left out)
ReturnsNullOnNullish(a, e) == Nullish(a) \/ Nullish(e)

\* part_021:94-95  the two early returns
ReturnsNull(a, e) == Nullish(a) \/ Nullish(e) \/ (e.k = "num" /\ e.v = 0)

\* part_021:96  Number((((a - e) / Math.abs(e)) * 100).toFixed(2)), with the
\* quotient IEEE gives for a zero divisor
SurpriseOf(a, e) ==
  IF e.v = 0
  THEN (IF a.v = 0 THEN Js("NaN", 0) ELSE Js("Infinity", IF a.v > 0 THEN 1 ELSE -1))
  ELSE Js("num", RoundDiv((a.v - e.v) * 100 * CentsPerDollar, Abs(e.v)))

computeSurprise(a, e) ==
  IF ReturnsNull(a, e)
  THEN [value |-> Js("null", 0), threw |-> FALSE, divZero |-> FALSE]
  ELSE [value |-> SurpriseOf(a, e), threw |-> FALSE, divZero |-> e.v = 0]

\* the EPS values tried, in cents
EpsValues ==
  {Js("null", 0), Js("undefined", 0)} \cup {Js("num", v) : v \in {-150, -7, -1, 0, 1, 33, 150, 299}}

EvIdle ==
  [pc |-> "idle", a |-> Js("undefined", 0), e |-> Js("undefined", 0),
   res |-> [value |-> Js("undefined", 0), threw |-> FALSE, divZero |-> FALSE]]

\* a call of computeSurprise returns
EvSurprise(a, e) ==
  /\ ev.pc = "idle"
  /\ ev' = [pc |-> "done", a |-> a, e |-> e, res |-> computeSurprise(a, e)]
  /\ UNCHANGED <<stockVars, gen, mkt, earn, rngs, hash, uiVars>>

\* the caller has its value
EvDrop ==
  /\ ev.pc = "done"
  /\ ev' = EvIdle
  /\ UNCHANGED <<stockVars, gen, mkt, earn, rngs, hash, uiVars>>

-----------------------------------------------------------------------------
(* lib/market (StockQA.tsx:124-350): getIndexQuote and its provider.  Times
   are in seconds, as in the history generator.  A number that may be NaN, or a
   JSON value that may not be a number, is [num, v]. *)

IndexSymbol == {"^GSPC", "^IXIC", "^DJI"}
RangeKey == {"1D", "1W", "1M", "1Y"}
MktNows == {1700000000, 1700000031}

SYMBOL_NAMES(symbol) ==
  CASE symbol = "^GSPC" -> "S&P 500"
    [] symbol = "^IXIC" -> "NASDAQ Composite"
    [] symbol = "^DJI" -> "Dow Jones Industrial Average"

ETF_PROXY_MAP(symbol) ==
  CASE symbol = "^GSPC" -> "SPY"
    [] symbol = "^IXIC" -> "QQQ"
    [] symbol = "^DJI" -> "DIA"

\* rangeToMs(range) / 1000
rangeToSec(range) ==
  CASE range = "1D" -> 24 * 60 * 60
    [] range = "1W" -> 7 * 24 * 60 * 60
    [] range = "1M" -> 30 * 24 * 60 * 60
    [] range = "1Y" -> 365 * 24 * 60 * 60

resolutionMinutesForRange(range) ==
  CASE range = "1D" -> 5
    [] range = "1W" -> 30
    [] range = "1M" -> 60 * 24
    [] range = "1Y" -> 60 * 24

Num(v) == [num |-> TRUE, v |-> v]
NotNum == [num |-> FALSE, v |-> 0]

\* generateDeterministicHistory: the times of its points.  The closes are a
\* seeded walk kept at 1 or more by Math.max(1, ...); they are left out here.
generateDeterministicHistory(symbol, range, t) ==
  LET step == resolutionMinutesForRange(range) * 60
      pts == Max(8, Ceil(rangeToSec(range), step))
      start == t - rangeToSec(range)
  IN  [k \in 1..(pts + 1) |-> [t |-> Num(start + ((k - 1) * step))]]

NoQuote == [src |-> "none", symbol |-> "", name |-> "", lastUpdated |-> NotNum, history |-> <<>>]

\* StockQA.tsx:313-326 and 334-348: the quote built from the synthetic history
SyntheticQuote(symbol, range, t) ==
  [src |-> "mock", symbol |-> symbol, name |-> SYMBOL_NAMES(symbol),
   lastUpdated |-> Num(t), history |-> generateDeterministicHistory(symbol, range, t)]

\* the values of MARKET_DATA_PROVIDER
sNone == <<>>
sfinnhub == <<102, 105, 110, 110, 104, 117, 98>>
sFINNHUB == <<70, 73, 78, 78, 72, 85, 66>>
sPOLYGON == <<80, 79, 76, 89, 71, 79, 78>>
sYAHOO == <<89, 65, 72, 79, 79>>

\* process.env as getIndexQuote reads it
MktEnvs ==
  [mock : BOOLEAN, provider : {sNone, sfinnhub, sFINNHUB, sPOLYGON, sYAHOO},
   finnhubKey : BOOLEAN, polygonKey : BOOLEAN]

\* res.data of the candle request: is d truthy, is d.c truthy, d.s, is d.t
\* there, and the elements of d.c and d.t
Payload(truthy, hasC, st, hasT, c, t) ==
  [truthy |-> truthy, hasC |-> hasC, s |-> st, hasT |-> hasT, c |-> c, t |-> t]

Payloads ==
  { Payload(FALSE, FALSE, "", FALSE, <<>>, <<>>),
    Payload(TRUE, FALSE, "ok", TRUE, <<>>, <<Num(1699990000)>>),
    Payload(TRUE, FALSE, "no_data", FALSE, <<>>, <<>>),
    Payload(TRUE, TRUE, "no_data", TRUE, <<Num(Dollars(450))>>, <<Num(1699990000)>>),
    Payload(TRUE, TRUE, "ok", TRUE, <<>>, <<>>),
    Payload(TRUE, TRUE, "ok", FALSE, <<Num(Dollars(450))>>, <<>>),
    Payload(TRUE, TRUE, "ok", TRUE, <<Num(Dollars(450))>>, <<Num(1699990000), Num(1699990300)>>),
    Payload(TRUE, TRUE, "ok", TRUE, <<NotNum>>, <<Num(1699990000)>>),
    Payload(TRUE, TRUE, "ok", TRUE, <<Num(Dollars(450))>>, <<NotNum>>),
    Payload(TRUE, TRUE, "ok", TRUE, <<Num(Dollars(450)), Num(Dollars(451) + 1)>>,
            <<Num(1699990000), Num(1699990300)>>) }

\* the statuses a failed request carries (0: no response at all)
HttpStatuses == {0, 429, 500}

\* requestWithRetry's default
RETRIES == 2

\* (mutant of Backoff: the wait of the other failures taken for a 429 too)
BackoffLinear(status, i) == 250 * (i + 1)

\* StockQA.tsx:246-247: the wait after failed attempt i
Backoff(status, i) == IF status = 429 THEN 500 * (2 ^ i) ELSE 250 * (i + 1)

\* StockQA.tsx:269-279: the resolution sent to Finnhub
Resolution(range) ==
  CASE range = "1D" -> "5"
    [] range = "1W" -> "30"
    [] OTHER -> "D"

NoReq == [symbol |-> "", resolution |-> "", from |-> 0, to |-> 0]

\* StockQA.tsx:283-298: from the response to the quote, or to a throw
MapResponse(symbol, d) ==
  IF ~d.truthy \/ ~d.hasC \/ d.s = "no_data"
  THEN [threw |-> TRUE, err |-> "Invalid provider response or no data", quote |-> NoQuote]
  ELSE IF ~d.hasT
  THEN [threw |-> TRUE, err |-> "TypeError: d.t", quote |-> NoQuote]
  ELSE IF \E k \in 1..Len(d.t) : k > Len(d.c) \/ ~d.c[k].num
  THEN [threw |-> TRUE, err |-> "TypeError: d.c[i].toFixed", quote |-> NoQuote]
  ELSE IF Len(d.t) = 0
  THEN [threw |-> TRUE, err |-> "TypeError: history[-1].c", quote |-> NoQuote]
  ELSE LET history ==
             [k \in 1..Len(d.t) |->
                [t |-> IF d.t[k].num THEN Num(d.t[k].v) ELSE NotNum,
                 c |-> Num(toFixed2(d.c[k].v))]]
       IN  [threw |-> FALSE, err |-> "",
            quote |-> [src |-> "provider", symbol |-> symbol, name |-> SYMBOL_NAMES(symbol),
                       lastUpdated |-> history[Len(history)].t, history |-> history]]

\* thrown holds the status of the error that has left requestWithRetry, if one has
MktIdle ==
  [pc |-> "idle", symbol |-> "", range |-> "", mock |-> FALSE, now |-> 0, req |-> NoReq,
   i |-> 0, waited |-> <<>>, failed |-> <<>>, thrown |-> <<>>, attempts |-> 0, err |-> "", d |-> Payload(FALSE, FALSE, "", FALSE, <<>>, <<>>),
   got |-> FALSE, result |-> NoQuote]

\* StockQA.tsx:311-327: getIndexQuote in mock mode
MktCallMock(symbol, range, env, t) ==
  /\ mkt.pc = "idle"
  /\ env.mock
  /\ mkt' = [MktIdle EXCEPT !.pc = "done", !.symbol = symbol, !.range = range,
                            !.mock = TRUE, !.now = t,
                            !.result = SyntheticQuote(symbol, range, t)]
  /\ UNCHANGED <<stockVars, gen, pureVars, uiVars>>

\* StockQA.tsx:329-332 and 253-281: getIndexQuote calls fetchFromProvider,
\* which runs up to its first await or throw
MktCallProvider(symbol, range, env, t) ==
  /\ mkt.pc = "idle"
  /\ ~env.mock
  /\ LET provider == toUpperCase(env.provider)
         call == [MktIdle EXCEPT !.symbol = symbol, !.range = range, !.now = t]
     IN  mkt' =
           IF provider = sNone
           THEN [call EXCEPT !.pc = "catch", !.err = "No market data provider configured"]
           ELSE IF provider = sFINNHUB
           THEN IF ~env.finnhubKey
                THEN [call EXCEPT !.pc = "catch", !.err = "FINNHUB_API_KEY missing"]
                ELSE [call EXCEPT !.pc = "request",
                                  !.req = [symbol |-> ETF_PROXY_MAP(symbol),
                                           resolution |-> Resolution(range),
                                           from |-> t - rangeToSec(range), to |-> t]]
           ELSE IF provider = sPOLYGON
           THEN IF ~env.polygonKey
                THEN [call EXCEPT !.pc = "catch", !.err = "POLYGON_API_KEY missing"]
                ELSE [call EXCEPT !.pc = "catch", !.err = "POLYGON not implemented"]
           ELSE [call EXCEPT !.pc = "catch", !.err = "Unsupported MARKET_DATA_PROVIDER"]
  /\ UNCHANGED <<stockVars, gen, pureVars, uiVars>>

\* StockQA.tsx:239-248: axios.get of attempt i throws
MktRequestFails(status) ==
  /\ mkt.pc = "request"
  /\ mkt' = IF mkt.i = RETRIES
            THEN [mkt EXCEPT !.pc = "catch", !.attempts = @ + 1, !.err = "request failed",
                             !.failed = Append(@, status), !.thrown = <<status>>]
            ELSE [mkt EXCEPT !.pc = "delay", !.attempts = @ + 1,
                             !.failed = Append(@, status),
                             !.waited = Append(@, Backoff(status, mkt.i))]
  /\ UNCHANGED <<stockVars, gen, pureVars, uiVars>>

\* StockQA.tsx:238, 246-247, 250: the delay is over, the loop goes on, or ends
\* and the throw after it is reached
MktDelayOver ==
  /\ mkt.pc = "delay"
  /\ mkt' = IF mkt.i + 1 <= RETRIES
            THEN [mkt EXCEPT !.pc = "request", !.i = @ + 1]
            ELSE [mkt EXCEPT !.pc = "catch", !.i = @ + 1, !.err = "Unreachable"]
  /\ UNCHANGED <<stockVars, gen, pureVars, uiVars>>

\* StockQA.tsx:240-241, 281-298: axios.get resolves and the response is mapped
MktResponse(d) ==
  /\ mkt.pc = "request"
  /\ LET m == MapResponse(mkt.symbol, d)
     IN  mkt' = IF m.threw
                THEN [mkt EXCEPT !.pc = "catch", !.attempts = @ + 1, !.d = d, !.got = TRUE,
                                 !.err = m.err]
                ELSE [mkt EXCEPT !.pc = "done", !.attempts = @ + 1, !.d = d, !.got = TRUE,
                                 !.result = m.quote]
  /\ UNCHANGED <<stockVars, gen, pureVars, uiVars>>

\* StockQA.tsx:333-349: the catch block of getIndexQuote
MktCatch(t) ==
  /\ mkt.pc = "catch"
  /\ t >= mkt.now
  /\ mkt' = [mkt EXCEPT !.pc = "done", !.result = SyntheticQuote(mkt.symbol, mkt.range, t)]
  /\ UNCHANGED <<stockVars, gen, pureVars, uiVars>>

\* the caller has its quote: the frame is gone
MktDrop ==
  /\ mkt.pc = "done"
  /\ mkt' = MktIdle
  /\ UNCHANGED <<stockVars, gen, pureVars, uiVars>>

-----------------------------------------------------------------------------
(* getIndexTileQuotes (StockQA.tsx:371-525).  tile.cache is tileQuoteCache in
   iteration order, tile.env the process environment (fixed by the first
   call), the rest the frame of the call in progress: the tickers handed to
   fetchQuoteFromProvider, the requests sent, and one slot per requested
   symbol.  The cache key `${symbols.join(',')}-${mode}-${mock}` is the triple
   it is built from (no index symbol holds a comma or a dash). *)

\* the calls one run makes
MaxTileCalls == 2

CACHE_TTL_MS == 1000

\* the clock is read every half lifetime of an entry, until one has expired
TileTickMs == CACHE_TTL_MS \div 2

\* process.env: MARKET_DATA_MOCK, MARKET_DATA_PROVIDER ("" when unset), the
\* key of that provider, MARKET_INDEX_MODE
TileEnv(m, p, k, i) == [mock |-> m, provider |-> p, hasKey |-> k, indexMode |-> i]

TileEnvs ==
  {TileEnv(TRUE, "", FALSE, ""), TileEnv(FALSE, "", FALSE, ""),
   TileEnv(FALSE, "FINNHUB", TRUE, ""), TileEnv(FALSE, "FINNHUB", FALSE, ""),
   TileEnv(FALSE, "POLYGON", TRUE, ""), TileEnv(FALSE, "POLYGON", TRUE, "ETF_PROXY"),
   TileEnv(FALSE, "YAHOO", FALSE, "")}

\* the lists of symbols asked for, and opts?.mode ("" when absent)
TileLists == {<<"^GSPC">>, <<"^DJI", "^GSPC">>, <<"^IXIC", "^IXIC">>}
TileOpts == {"", "INDEX", "ETF_PROXY"}

\* what a quote request comes back with: a full quote, a body without the
\* price fields, or a failure
QuoteOutcomes == {"quote", "empty", "fail"}

\* StockQA.tsx:379
ModeOf(opt, env) ==
  IF opt # "" THEN opt ELSE IF env.indexMode = "ETF_PROXY" THEN "ETF_PROXY" ELSE "INDEX"

\* the index symbols themselves as tickers
SymbolsAsTickers(symbols, mode, env) == symbols

\* StockQA.tsx:413-425  tickersToFetch
TickersToFetch(symbols, mode, env) ==
  LET provider == IF env.provider = "" THEN "FINNHUB" ELSE env.provider
  IN  IF mode = "ETF_PROXY" \/ provider = "FINNHUB"
      THEN [k \in 1..Len(symbols) |-> ETF_PROXY_MAP(symbols[k])]
      ELSE symbols

\* StockQA.tsx:463-480 (and 392-410): the synthetic tile.  A tile is its
\* labels, where its figures come from, and whether it has a price of its own;
\* lastUpdated is left to the cache entry's timestamp.
generateMockTileQuote(symbol) ==
  [symbol |-> symbol, name |-> SYMBOL_NAMES(symbol), src |-> "mock", priced |-> TRUE]

\* StockQA.tsx:429-438: the tile built from a provider quote; data.c || 0
\* makes a body without a price a quote of 0
ProviderTile(symbol, outcome) ==
  [symbol |-> symbol, name |-> SYMBOL_NAMES(symbol), src |-> "provider",
   priced |-> outcome = "quote"]

\* StockQA.tsx:483-525: does fetchQuoteFromProvider get as far as axios.get?
SendsRequest(env) == env.provider \in {"FINNHUB", "POLYGON"} /\ env.hasKey

\* a slot whose fetch is under way
PendingSlot == [symbol |-> "", name |-> "", src |-> "pending", priced |-> FALSE]

TileInit ==
  [cache |-> <<>>, env |-> TileEnv(TRUE, "", FALSE, ""),
   calls |-> 0, now |-> 0, pc |-> "idle", symbols |-> <<>>, mode |-> "", hit |-> FALSE,
   fetched |-> <<>>, sent |-> <<>>, slots |-> <<>>, result |-> <<>>]

TileCacheIndex(key) ==
  IF \E k \in 1..Len(tile.cache) : tile.cache[k].key = key
  THEN CHOOSE k \in 1..Len(tile.cache) : tile.cache[k].key = key
  ELSE 0

\* StockQA.tsx:457  tileQuoteCache.set(cacheKey, { data: quotes, timestamp: Date.now() })
TileCacheSet(key, quotes, t) ==
  LET k == TileCacheIndex(key)
      entry == [key |-> key, data |-> quotes, timestamp |-> t]
  IN  IF k = 0 THEN Append(tile.cache, entry) ELSE [tile.cache EXCEPT ![k] = entry]

\* StockQA.tsx:429-447: the tile of one settled fetch.  A request that fails,
\* and a Polygon body without results[0], are caught and answered with the
\* synthetic tile; any other body becomes a provider tile.
SettledTile(symbol, env, outcome) ==
  IF outcome = "fail" \/ (env.provider = "POLYGON" /\ outcome = "empty")
  THEN generateMockTileQuote(symbol)
  ELSE ProviderTile(symbol, outcome)

\* StockQA.tsx:375-460 up to the first suspension.  A fresh cache entry is
\* returned as it is.  In mock mode, and when fetchQuoteFromProvider throws
\* before it sends anything, every tile is there within the same task, and so
\* are the cache write and the return.
TileCall(symbols, opt, env) ==
  /\ tile.pc = "idle"
  /\ tile.calls < MaxTileCalls
  /\ tile.calls = 0 \/ env = tile.env
  /\ LET mode == ModeOf(opt, env)
         key == <<symbols, mode, env.mock>>
         k == TileCacheIndex(key)
         started == [tile EXCEPT !.env = env, !.calls = @ + 1, !.symbols = symbols,
                                 !.mode = mode, !.hit = FALSE, !.fetched = <<>>,
                                 !.sent = <<>>, !.slots = <<>>, !.result = <<>>]
         mocks == [j \in 1..Len(symbols) |-> generateMockTileQuote(symbols[j])]
     IN  IF k # 0 /\ tile.now - tile.cache[k].timestamp < CACHE_TTL_MS
         THEN tile' = [started EXCEPT !.pc = "done", !.hit = TRUE,
                                      !.result = tile.cache[k].data]
         ELSE IF env.mock
         THEN tile' = [started EXCEPT !.pc = "done", !.result = mocks,
                                      !.cache = TileCacheSet(key, mocks, tile.now)]
         ELSE IF ~SendsRequest(env)
         THEN tile' = [started EXCEPT !.pc = "done", !.result = mocks,
                                      !.fetched = TickersToFetch(symbols, mode, env),
                                      !.cache = TileCacheSet(key, mocks, tile.now)]
         ELSE tile' = [started EXCEPT !.pc = "fetching",
                                      !.fetched = TickersToFetch(symbols, mode, env),
                                      !.sent = TickersToFetch(symbols, mode, env),
                                      !.slots = [j \in 1..Len(symbols) |-> PendingSlot]]
  /\ UNCHANGED <<stockVars, gen, mkt, pureVars, rt, cal, dm>>

\* StockQA.tsx:431-459: the request of slot i settles; with the last one
\* Promise.all resolves, the tiles are cached and returned
TileResponse(i, outcome) ==
  /\ tile.pc = "fetching"
  /\ i \in 1..Len(tile.slots)
  /\ tile.slots[i] = PendingSlot
  /\ LET slots == [tile.slots EXCEPT
                     ![i] = SettledTile(tile.symbols[i], tile.env, outcome)]
         key == <<tile.symbols, tile.mode, tile.env.mock>>
     IN  IF \E j \in 1..Len(slots) : slots[j] = PendingSlot
         THEN tile' = [tile EXCEPT !.slots = slots]
         ELSE tile' = [tile EXCEPT !.slots = slots, !.pc = "done", !.result = slots,
                                   !.cache = TileCacheSet(key, slots, tile.now)]
  /\ UNCHANGED <<stockVars, gen, mkt, pureVars, rt, cal, dm>>

\* the caller has its tiles
TileDrop ==
  /\ tile.pc = "done"
  /\ tile' = [tile EXCEPT !.pc = "idle", !.symbols = <<>>, !.mode = "", !.hit = FALSE,
                            !.fetched = <<>>, !.sent = <<>>, !.slots = <<>>, !.result = <<>>]
  /\ UNCHANGED <<stockVars, gen, mkt, pureVars, rt, cal, dm>>

\* Date.now() moves on
TileTick ==
  /\ tile.now < CACHE_TTL_MS
  /\ tile' = [tile EXCEPT !.now = @ + TileTickMs]
  /\ UNCHANGED <<stockVars, gen, mkt, pureVars, rt, cal, dm>>

-----------------------------------------------------------------------------
(* The realtime polling effect of MarketOverview (part_019:67-159), with
   NEXT_PUBLIC_MARKET_REALTIME_ENABLED on.  rt holds the component's state
   (mounted, dataMap, retryCount, realtimeLoading), the effect instance of the
   last commit (dep is the retryCount its closures captured, interval the
   handle of its last setTimeout), the timers the browser holds and the
   fetches in flight.  A timer and a fetch belong to the closures of the
   running effect instance ("live": its `alive` is true) or of one whose
   cleanup has run ("dead").  A fetch in flight stands at `await fetch(...)`
   or, after an ok response, at `await res.json()`: nothing is read or written
   between the two, so its end is one step with one of five outcomes.  Time is
   kept as what is left on each timer.
   dataMap is the number of objects setDataMap has put in place, modulo 2.
   The fields since429, sinceStart, started, lastStart, settled, owed,
   deadStart and escaped record history; lastStart is filled by a step that
   starts a fetch, settled by a step in which a fetch ends, and both are
   emptied by the step after it. *)

\* the rate limits in a row, and the fetches in flight at once
MaxRetry == 2
MaxInFlight == 2

REFRESH_MS == 5000
BACKOFF_BASE_MS == 15000
BACKOFF_MAX_MS == 60000

\* time advances in steps that divide every interval
RtQuantum == REFRESH_MS

Owners == {"live", "dead"}
TimerIds == 1..2

\* what a fetch ends with: a rejected fetch(), a response that is not ok (429
\* or another status), an ok response whose body res.json() rejects, or tiles
FetchOutcomes == {"network", "429", "500", "syntax", "tiles"}

\* part_019:134-140
getIntervalMs(retryCount) ==
  IF retryCount > 0
  THEN Min(BACKOFF_BASE_MS * (2 ^ (retryCount - 1)), BACKOFF_MAX_MS)
  ELSE REFRESH_MS

NoStart ==
  [any |-> FALSE, n |-> 0, elapsed |-> 0, wait |-> 0, first |-> FALSE, owed |-> FALSE]
NoSettle == [dead |-> FALSE, changed |-> FALSE, ended |-> "none", before |-> 0]

RtInit ==
  [mounted |-> TRUE, dataMap |-> 0, retryCount |-> 0, realtimeLoading |-> FALSE,
   run |-> FALSE, dep |-> 0, interval |-> 0,
   timers |-> {}, inflight |-> [k \in Owners |-> 0],
   since429 |-> [n |-> 0, elapsed |-> 0], sinceStart |-> 0, started |-> FALSE,
   lastStart |-> NoStart, settled |-> NoSettle,
   owed |-> FALSE, deadStart |-> FALSE, escaped |-> FALSE]

InFlight(r) == r.inflight["live"] + r.inflight["dead"]

CompState(r) == <<r.dataMap, r.retryCount, r.realtimeLoading>>

\* the state setters: React drops an update of a component that is gone
setRealtimeLoading(r, v) == IF r.mounted THEN [r EXCEPT !.realtimeLoading = v] ELSE r

setDataMap(r) == IF r.mounted THEN [r EXCEPT !.dataMap = (@ + 1) % 2] ELSE r

setRetryCount(r, v) ==
  IF r.mounted
  THEN [r EXCEPT !.retryCount = v,
                 !.since429 = IF v = 0 THEN [n |-> 0, elapsed |-> 0]
                              ELSE IF v > r.retryCount THEN [n |-> v, elapsed |-> 0]
                              ELSE @]
  ELSE r

\* part_019:74-78: fetchQuotes up to `await fetch(...)`, run by the closures
\* of owner
StartFetch(r, owner) ==
  LET s == setRealtimeLoading(r, TRUE)
  IN  [s EXCEPT !.inflight[owner] = @ + 1,
                !.lastStart = [any |-> TRUE, n |-> r.since429.n,
                               elapsed |-> r.since429.elapsed,
                               wait |-> IF r.since429.n = 0 THEN r.sinceStart ELSE 0,
                               first |-> ~r.started, owed |-> r.owed],
                !.settled = NoSettle,
                !.started = TRUE,
                !.sinceStart = 0,
                !.owed = FALSE,
                !.deadStart = @ \/ owner = "dead"]

FreeTimerId(r) == CHOOSE i \in TimerIds : \A t \in r.timers : t.id # i

\* the timer is left as it is
KeepTimeout(r, id) == r

\* clearTimeout(id)
ClearTimeout(r, id) == [r EXCEPT !.timers = {t \in @ : t.id # id}]

\* no timer is set
scheduleNever(r, owner) == r

\* part_019:142-149  scheduleNext, run by the closures of owner
scheduleNext(r, owner) ==
  IF owner = "live"
  THEN LET id == FreeTimerId(r)
       IN  [r EXCEPT !.timers = @ \cup {[id |-> id, owner |-> "live",
                                          left |-> getIntervalMs(r.dep)]},
                     !.interval = id]
  ELSE r

\* part_019:153-158: the cleanup of the running effect instance.  Its closures
\* see alive = false from now on.
Cleanup(r) ==
  IF ~r.run THEN r
  ELSE LET dead == [r EXCEPT
                      !.timers = {[t EXCEPT !.owner = "dead"] : t \in @},
                      !.inflight = [k \in Owners |->
                                      IF k = "dead" THEN @["dead"] + @["live"] ELSE 0],
                      !.run = FALSE]
       IN  IF r.interval # 0 THEN ClearTimeout(dead, r.interval) ELSE dead

\* part_019:68-151: the body of the effect
RunEffect(r) ==
  scheduleNext(StartFetch([r EXCEPT !.run = TRUE, !.dep = r.retryCount, !.interval = 0],
                          "live"),
               "live")

\* React commits a render: on mount, and whenever retryCount differs from the
\* dependency of the running effect, the cleanup runs and then the effect
RtCommit ==
  /\ rt.mounted
  /\ ~rt.run \/ rt.dep # rt.retryCount
  /\ InFlight(rt) < MaxInFlight
  /\ rt' = RunEffect(Cleanup(rt))
  /\ UNCHANGED <<stockVars, gen, mkt, pureVars, tile, cal, dm>>

\* part_019:144-147: a timer that is due calls fetchQuotes and scheduleNext
RtTimer(t) ==
  /\ t \in rt.timers
  /\ t.left = 0
  /\ InFlight(rt) < MaxInFlight
  /\ rt' = scheduleNext(StartFetch([rt EXCEPT !.timers = @ \ {t}], t.owner), t.owner)
  /\ UNCHANGED <<stockVars, gen, mkt, pureVars, tile, cal, dm>>

\* the two stopwatches: the time since the 429 behind the present retry count
\* runs while that count is not 0 and stops at the interval of that count; the
\* time since the last start of a fetch stops at two refresh intervals
Since429(c) ==
  IF c.n = 0 THEN c ELSE [c EXCEPT !.elapsed = Min(@ + RtQuantum, getIntervalMs(c.n))]

SinceStart(ms) == Min(ms + RtQuantum, 2 * REFRESH_MS)

\* time passes, up to the next timer that is due
RtAdvance ==
  /\ rt.timers # {}
  /\ \A t \in rt.timers : t.left >= RtQuantum
  /\ rt' = [rt EXCEPT !.timers = {[t EXCEPT !.left = @ - RtQuantum] : t \in @},
                      !.lastStart = NoStart,
                      !.settled = NoSettle,
                      !.since429 = Since429(@),
                      !.sinceStart = SinceStart(@)]
  /\ UNCHANGED <<stockVars, gen, mkt, pureVars, tile, cal, dm>>

\* what the try block can throw: the two errors it makes itself, the
\* TypeError fetch rejects with and the SyntaxError res.json() rejects with
ErrorOf(outcome) ==
  CASE outcome = "429" -> [object |-> TRUE, message |-> "RATE_LIMIT"]
    [] outcome = "500" -> [object |-> TRUE, message |-> "HTTP 500"]
    [] outcome = "network" -> [object |-> TRUE, message |-> "Failed to fetch"]
    [] outcome = "syntax" -> [object |-> TRUE, message |-> "Unexpected token"]

\* part_019:116-127: the catch block and the finally block in the closures of
\* owner.  Reading error.message is the one step of the catch block that could
\* throw, were the error not an object.
Caught(r, owner, error) ==
  LET c == IF error.object /\ error.message = "RATE_LIMIT"
           THEN setRetryCount(r, r.retryCount + 1) ELSE r
      f == IF owner = "live" THEN setRealtimeLoading(c, FALSE) ELSE c
  IN  [f EXCEPT !.owed = r.mounted, !.escaped = @ \/ ~error.object]

\* (mutant of Applied: the retry count not reset)
AppliedOnly(r, owner) ==
  IF owner = "live" THEN setRealtimeLoading(setDataMap(r), FALSE) ELSE r

\* part_019:95-115 and 123-127: the tiles are there
Applied(r, owner) ==
  IF owner = "live"
  THEN setRealtimeLoading(setRetryCount(setDataMap(r), 0), FALSE)
  ELSE r

Taken(r, owner) ==
  [r EXCEPT !.inflight[owner] = @ - 1, !.lastStart = NoStart, !.settled = NoSettle]

\* how a fetch ended: with HTTP 429, with another failure, or with the tiles
EndOf(outcome) ==
  IF outcome = "tiles" THEN "tiles" ELSE IF outcome = "429" THEN "429" ELSE "failure"

Record(r, owner, outcome, after) ==
  [after EXCEPT !.settled = [dead |-> owner = "dead",
                             changed |-> CompState(r) # CompState(after),
                             ended |-> EndOf(outcome),
                             before |-> r.retryCount]]

\* part_019:78-127: a fetch of the closures of owner ends
RtSettle(owner, outcome) ==
  /\ rt.inflight[owner] > 0
  /\ outcome = "429" /\ rt.mounted => rt.retryCount < MaxRetry
  /\ LET r == Taken(rt, owner)
     IN  rt' = IF outcome = "tiles"
               THEN Record(rt, owner, outcome, Applied(r, owner))
               ELSE Record(rt, owner, outcome, Caught(r, owner, ErrorOf(outcome)))
  /\ UNCHANGED <<stockVars, gen, mkt, pureVars, tile, cal, dm>>

\* the component goes away: the cleanup runs
RtUnmount ==
  /\ rt.mounted
  /\ rt' = [Cleanup(rt) EXCEPT !.mounted = FALSE, !.lastStart = NoStart,
                                !.settled = NoSettle]
  /\ UNCHANGED <<stockVars, gen, mkt, pureVars, tile, cal, dm>>

-----------------------------------------------------------------------------
(* getEarnings (part_021:99-173), the earnings calendar.  A number of the
   query is a Js value whose v counts halves (page 1 is Js("num", 2), page
   1/2 is Js("num", 1)); a date of the query is a day of January of EarnYear,
   0 for a string new Date() cannot parse.  An event's date is such a day
   too, an EPS is in cents. *)

\* the spans tried: end - start is at most MaxCalSpan days
MaxCalSpan == 1

FirstCalDay == 14

PER_PAGE_DEFAULT == 25
PER_PAGE_MIN == 1
PER_PAGE_MAX == 50

\* part_021:62-78, as UTF-16 code units
SAMPLE_SYMBOLS ==
  << [symbol |-> <<65, 65, 80, 76>>,
      name |-> <<65, 112, 112, 108, 101, 32, 73, 110, 99, 46>>],
     [symbol |-> <<77, 83, 70, 84>>,
      name |-> <<77, 105, 99, 114, 111, 115, 111, 102, 116, 32, 67, 111, 114, 112, 46>>],
     [symbol |-> <<65, 77, 90, 78>>,
      name |-> <<65, 109, 97, 122, 111, 110, 46, 99, 111, 109, 32, 73, 110, 99, 46>>],
     [symbol |-> <<71, 79, 79, 71, 76>>,
      name |-> <<65, 108, 112, 104, 97, 98, 101, 116, 32, 73, 110, 99, 46>>],
     [symbol |-> <<78, 86, 68, 65>>,
      name |-> <<78, 86, 73, 68, 73, 65, 32, 67, 111, 114, 112, 46>>],
     [symbol |-> <<84, 83, 76, 65>>,
      name |-> <<84, 101, 115, 108, 97, 32, 73, 110, 99, 46>>],
     [symbol |-> <<77, 69, 84, 65>>,
      name |-> <<77, 101, 116, 97, 32, 80, 108, 97, 116, 102, 111, 114, 109, 115>>],
     [symbol |-> <<78, 70, 76, 88>>,
      name |-> <<78, 101, 116, 102, 108, 105, 120, 32, 73, 110, 99, 46>>],
     [symbol |-> <<74, 80, 77>>,
      name |-> <<74, 80, 77, 111, 114, 103, 97, 110, 32, 67, 104, 97, 115, 101, 32, 38, 32, 67, 111, 46>>],
     [symbol |-> <<87, 77, 84>>,
      name |-> <<87, 97, 108, 109, 97, 114, 116, 32, 73, 110, 99, 46>>],
     [symbol |-> <<88, 79, 77>>,
      name |-> <<69, 120, 120, 111, 110, 32, 77, 111, 98, 105, 108, 32, 67, 111, 114, 112, 46>>],
     [symbol |-> <<66, 65>>,
      name |-> <<66, 111, 101, 105, 110, 103, 32, 67, 111, 46>>],
     [symbol |-> <<80, 70, 69>>,
      name |-> <<80, 102, 105, 122, 101, 114, 32, 73, 110, 99, 46>>],
     [symbol |-> <<74, 78, 74>>,
      name |-> <<74, 111, 104, 110, 115, 111, 110, 32, 38, 32, 74, 111, 104, 110, 115, 111, 110>>],
     [symbol |-> <<67>>,
      name |-> <<67, 105, 116, 105, 103, 114, 111, 117, 112, 32, 73, 110, 99, 46>>] >>

toLowerCase(s) == [i \in 1..Len(s) |-> IF IsUpper(s[i]) THEN s[i] + 32 ELSE s[i]]

\* String.prototype.includes
Includes(hay, needle) ==
  \E i \in 0..(Len(hay) - Len(needle)) : SubSeq(hay, i + 1, i + Len(needle)) = needle

\* (mutant of clamp: the bounds not applied)
noClamp(n, lo, hi) == n

\* part_021:32-34
clamp(n, lo, hi) == Max(lo, Min(hi, n))

\* ToBoolean of a number: 0, NaN and undefined are falsy
TruthyNum(x) == x.k = "num" /\ x.v # 0

\* Math.floor of a number given in halves
FloorHalves(v) == v \div 2

\* part_021:100  q.page && q.page > 0 ? Math.floor(q.page) : 1
PageOf(page) == IF TruthyNum(page) /\ page.v > 0 THEN FloorHalves(page.v) ELSE 1

\* part_021:101  clamp(q.perPage ? Math.floor(q.perPage) : 25, 1, 50)
PerPageOf(perPage) ==
  clamp(IF TruthyNum(perPage) THEN FloorHalves(perPage.v) ELSE PER_PAGE_DEFAULT,
        PER_PAGE_MIN, PER_PAGE_MAX)

\* part_021:36-41  null (0) for an invalid date, else the date
parseISODate(day) == day

\* "yyyy-01-dd"
IsoString(day) ==
  <<48 + (EarnYear \div 1000), 48 + ((EarnYear \div 100) % 10), 48 + ((EarnYear \div 10) % 10),
    48 + (EarnYear % 10), 45, 48, 49, 45, 48 + (day \div 10), 48 + (day % 10)>>

\* part_021:80-85
daysBetween(a, b) == b - a

\* part_021:87-91  local midnight plus days, then the UTC date: east of
\* Greenwich local midnight is still the day before in UTC
addDaysIso(day, days, east) == IF east THEN (day + days) - 1 ELSE day + days

\* part_021:122  `${startIso}|${endIso}|${q.q || ''}`
SeedString(q) == IsoString(q.start) \o <<124>> \o IsoString(q.end) \o <<124>> \o q.q

\* hashStringToInt of a long string: the same fold, its accumulator evaluated
\* every HashChunk characters
HashChunk == 6

RECURSIVE HashLong(_, _)
HashLong(h, s) ==
  IF Len(s) <= HashChunk THEN HashFrom(h, s, 1)
  ELSE LET h1 == HashFrom(h, SubSeq(s, 1, HashChunk), 1)
       IN  IF Hi(h1) >= 0 THEN HashLong(h1, SubSeq(s, HashChunk + 1, Len(s))) ELSE h1

\* rnd() > 0.3 and rnd() > 0.5, on the word rnd() was divided from:
\* 0.3 * 2^32 = 1288490188.8 and 0.5 * 2^32 = 2147483648
Over03(out) == Hi(out) > 19660 \/ (Hi(out) = 19660 /\ Lo(out) >= 52429)
Over05(out) == Hi(out) > 32768 \/ (Hi(out) = 32768 /\ Lo(out) >= 1)

\* Math.floor(rnd() * k), for a small k
FloorTimes(out, k) == ((Hi(out) * k) + ((Lo(out) * k) \div W16)) \div W16

\* rnd() * k to the nearest integer: (rnd() * 3).toFixed(2) in cents is
\* RoundTimes(out, 300)
RoundTimes(out, k) == ((Hi(out) * k) + ((Lo(out) * k) \div W16) + (W16 \div 2)) \div W16

\* part_021:130-151  the body of the inner loop, one call of rnd() after the
\* other.  A stage names the call of rnd() that comes next; StageAfter is the
\* call that follows it, given the word it returned.
StageAfter(stage, out) ==
  CASE stage = "idx" -> "hasEps"
    [] stage = "hasEps" -> IF Over03(out) THEN "epsEstimate" ELSE "hasRevenue"
    [] stage = "epsEstimate" -> "hasActual"
    [] stage = "hasActual" -> IF Over05(out) THEN "epsActual" ELSE "hasRevenue"
    [] stage = "epsActual" -> "hasRevenue"
    [] stage = "hasRevenue" -> IF Over05(out) THEN "revenueEstimate" ELSE "timeOfDay"
    \* Math.round(rnd() * 1e10) is 0, and falsy, only when rnd() is 0
    [] stage = "revenueEstimate" ->
         IF out # Word(0, 0) THEN "hasRevenueActual" ELSE "timeOfDay"
    [] stage = "hasRevenueActual" -> IF Over05(out) THEN "revenueActual" ELSE "timeOfDay"
    [] stage = "revenueActual" -> "timeOfDay"
    [] stage = "timeOfDay" -> IF Over05(out) THEN "session" ELSE "pushed"
    [] stage = "session" -> "pushed"

\* what the call of rnd() at a stage makes of the event
Drawn(stage, out, e) ==
  CASE stage = "idx" ->
         [e EXCEPT !.symbol = SAMPLE_SYMBOLS[FloorTimes(out, Len(SAMPLE_SYMBOLS)) + 1].symbol,
                   !.companyName = SAMPLE_SYMBOLS[FloorTimes(out, Len(SAMPLE_SYMBOLS)) + 1].name]
    [] stage = "epsEstimate" -> [e EXCEPT !.epsEstimate = Js("num", RoundTimes(out, 300))]
    [] stage = "epsActual" ->
         [e EXCEPT !.epsActual = Js("num", (e.epsEstimate.v + RoundTimes(out, 50)) - 25)]
    [] stage = "revenueEstimate" -> [e EXCEPT !.revenueEstimate = TRUE]
    [] stage = "revenueActual" -> [e EXCEPT !.revenueActual = TRUE]
    [] stage = "session" -> [e EXCEPT !.timeOfDay = IF Over05(out) THEN "BMO" ELSE "AMC"]
    [] OTHER -> e

\* the event before its draws: what it is without a draw that is skipped
BlankEvent(date) ==
  [symbol |-> <<>>, companyName |-> <<>>, date |-> date, timeOfDay |-> "Unspecified",
   epsEstimate |-> Js("null", 0), epsActual |-> Js("null", 0),
   surprisePercent |-> Js("null", 0), revenueEstimate |-> FALSE, revenueActual |-> FALSE,
   fiscalPeriod |-> [q |-> 1, y |-> EarnYear]]

RECURSIVE EventFrom(_, _, _)
EventFrom(t, stage, e) ==
  IF stage = "pushed"
  THEN [t |-> t,
        event |-> [e EXCEPT !.surprisePercent =
                              computeSurprise(e.epsActual, e.epsEstimate).value]]
  ELSE LET r == mulberry32(t)
       IN  IF Hi(r.t) >= 0
           THEN EventFrom(r.t, StageAfter(stage, r.out), Drawn(stage, r.out, e))
           ELSE [t |-> t, event |-> e]

\* the draws one event takes from the generator in state t, and the event pushed
CalEvent(t, date) == EventFrom(t, "idx", BlankEvent(date))

\* part_021:155-158  the search filter
Matches(e, qLower) ==
  Includes(toLowerCase(e.symbol), qLower) \/ Includes(toLowerCase(e.companyName), qLower)

Filtered(events, q) ==
  IF q = <<>> THEN events ELSE SelectSeq(events, LAMBDA e : Matches(e, toLowerCase(q)))

\* Array.prototype.slice(from, to), for from <= 0 <= to or 0 <= from <= to
Slice(s, from, to) ==
  LET len == Len(s)
      lo == IF from < 0 THEN Max(len + from, 0) ELSE Min(from, len)
      hi == IF to < 0 THEN Max(len + to, 0) ELSE Min(to, len)
  IN  IF lo >= hi THEN <<>> ELSE SubSeq(s, lo + 1, hi)

NoQuery ==
  [start |-> 0, end |-> 0, q |-> <<>>, page |-> Js("undefined", 0),
   perPage |-> Js("undefined", 0)]

CalIdle ==
  [pc |-> "idle", q |-> NoQuery, mock |-> FALSE, east |-> FALSE, page |-> 0,
   perPage |-> 0, outcome |-> "none", error |-> "", generator |-> FALSE,
   dayCount |-> 0, d |-> 0, i |-> 0, perDay |-> 0, t |-> Word(0, 0),
   events |-> <<>>, total |-> 0, items |-> <<>>]

CalDays == FirstCalDay..(FirstCalDay + MaxCalSpan)

CalDates == {0} \cup CalDays

CalPages == {Js("undefined", 0), Js("NaN", 0)} \cup {Js("num", v) : v \in {-2, 0, 1, 2, 4}}

CalPerPages == {Js("undefined", 0)} \cup {Js("num", v) : v \in {-10, 0, 2, 3, 100, 102}}

CalSearches == {<<>>, sAAPL, <<122, 122>>}

\* part_021:99-123  a call of getEarnings runs to its throw, to the return of
\* the placeholder, or to the head of the loop; mockEnv is
\* process.env.EARNINGS_DATA_MOCK === '1'
CalCall(q, mockEnv, east) ==
  /\ cal.pc = "idle"
  /\ LET page == PageOf(q.page)
         perPage == PerPageOf(q.perPage)
         startIso == parseISODate(q.start)
         endIso == parseISODate(q.end)
         frame == [CalIdle EXCEPT !.q = q, !.mock = mockEnv, !.east = east,
                                  !.page = page, !.perPage = perPage]
     IN  cal' =
           IF startIso = 0 \/ endIso = 0
           THEN [frame EXCEPT !.pc = "done", !.outcome = "rejected",
                              !.error = "Invalid start or end date"]
           ELSE IF startIso > endIso
           THEN [frame EXCEPT !.pc = "done", !.outcome = "rejected",
                              !.error = "start must be <= end"]
           ELSE IF ~mockEnv
           THEN [frame EXCEPT !.pc = "done", !.outcome = "resolved"]
           ELSE [frame EXCEPT !.pc = "loop", !.generator = TRUE,
                              !.dayCount = daysBetween(startIso, endIso) + 1,
                              !.t = HashLong(FNV_BASIS, SeedString(q))]
  /\ UNCHANGED <<stockVars, gen, mkt, pureVars, tile, rt, dm>>

\* part_021:127-152  one event: at the head of a day perDay is drawn first
CalStep ==
  /\ cal.pc = "loop"
  /\ LET head == IF cal.i = 0 THEN mulberry32(cal.t) ELSE [t |-> cal.t, out |-> Word(0, 0)]
         perDay == IF cal.i = 0 THEN 1 + FloorTimes(head.out, 4) ELSE cal.perDay
         pushed == CalEvent(head.t, addDaysIso(cal.q.start, cal.d, cal.east))
         dayOver == cal.i + 1 = perDay
         d == IF dayOver THEN cal.d + 1 ELSE cal.d
     IN  cal' = [cal EXCEPT !.perDay = perDay, !.t = pushed.t,
                            !.events = Append(@, pushed.event),
                            !.i = IF dayOver THEN 0 ELSE cal.i + 1,
                            !.d = d,
                            !.pc = IF d = cal.dayCount THEN "filter" ELSE "loop"]
  /\ UNCHANGED <<stockVars, gen, mkt, pureVars, tile, rt, dm>>

\* part_021:154-172  the filter, the page and the return
CalReturn ==
  /\ cal.pc = "filter"
  /\ LET filtered == Filtered(cal.events, cal.q.q)
         startIdx == (cal.page - 1) * cal.perPage
     IN  cal' = [cal EXCEPT !.pc = "done", !.outcome = "resolved",
                            !.total = Len(filtered),
                            !.items = Slice(filtered, startIdx, startIdx + cal.perPage)]
  /\ UNCHANGED <<stockVars, gen, mkt, pureVars, tile, rt, dm>>

\* the caller has its result, or its error
CalDrop ==
  /\ cal.pc = "done"
  /\ cal' = CalIdle
  /\ UNCHANGED <<stockVars, gen, mkt, pureVars, tile, rt, dm>>

-----------------------------------------------------------------------------
(* MarketOverview's dataMap (part_019:31-35, 95-115, 187-199).  dm.map is the
   object: a function from its own keys to the IndexQuote under each.  A
   quote's history stands for everything an IndexQuote has and a tile has
   not; version v of a quote or tile fixes its numbers. *)

\* the updates applied after the mount
MaxDmSteps == 2
DmVersions == 1..2

\* an IndexQuote as /api/index-quote delivers it
DmQuote(symbol, v) ==
  [symbol |-> symbol, name |-> SYMBOL_NAMES(symbol), price |-> 100 * v, change |-> v,
   changePercent |-> v, lastUpdated |-> 1000 * v, history |-> <<100 * v>>]

\* an IndexTileQuote as /api/index-quotes delivers it
DmTile(symbol, v) ==
  [symbol |-> symbol, name |-> SYMBOL_NAMES(symbol), price |-> (100 * v) + 1, change |-> v + 1,
   changePercent |-> v + 1, lastUpdated |-> (1000 * v) + 1]

DmQuotes == {DmQuote(symbol, v) : symbol \in IndexSymbol, v \in DmVersions}
DmTiles == {DmTile(symbol, v) : symbol \in IndexSymbol, v \in DmVersions}

SeqsUpTo(S, n) == UNION {[1..k -> S] : k \in 0..n}

\* obj[key] = value on a copy of obj
SetProp(obj, key, value) ==
  [k \in (DOMAIN obj) \cup {key} |-> IF k = key THEN value ELSE obj[k]]

\* part_019:31-35  for (const q of initialData) map[q.symbol] = q
RECURSIVE MapOf(_, _)
MapOf(initialData, i) ==
  IF i = 0 THEN <<>>
  ELSE SetProp(MapOf(initialData, i - 1), initialData[i].symbol, initialData[i])

\* (mutant of UpdateOne: the test of `existing` left out)
UpdateAny(updated, tileQuote) ==
  SetProp(updated, tileQuote.symbol,
          [symbol |-> tileQuote.symbol, name |-> tileQuote.name, price |-> tileQuote.price,
           change |-> tileQuote.change, changePercent |-> tileQuote.changePercent,
           lastUpdated |-> tileQuote.lastUpdated, history |-> <<>>])

\* part_019:100-111  the body of the forEach
UpdateOne(updated, tileQuote) ==
  IF tileQuote.symbol \in DOMAIN updated
  THEN LET existing == updated[tileQuote.symbol]
       IN  SetProp(updated, tileQuote.symbol,
                   [existing EXCEPT !.price = tileQuote.price,
                                    !.change = tileQuote.change,
                                    !.changePercent = tileQuote.changePercent,
                                    !.lastUpdated = tileQuote.lastUpdated])
  ELSE updated

\* part_019:97-113  the updater handed to setDataMap
RECURSIVE Updater(_, _, _)
Updater(prev, tileQuotes, i) ==
  IF i = 0 THEN prev ELSE UpdateOne(Updater(prev, tileQuotes, i - 1), tileQuotes[i])

DmIdle ==
  [pc |-> "idle", map |-> <<>>, n |-> 0, applied |-> FALSE, prev |-> <<>>, tiles |-> <<>>]

\* part_019:30-35  the component mounts with initialData
DmMount(initialData) ==
  /\ dm.pc = "idle"
  /\ dm' = [DmIdle EXCEPT !.pc = "mounted", !.map = MapOf(initialData, Len(initialData))]
  /\ UNCHANGED <<stockVars, gen, mkt, pureVars, tile, rt, cal>>

\* part_019:94-114  a fetch of a live effect instance has its tiles: React
\* applies the updater to the dataMap of the moment
DmUpdate(tileQuotes) ==
  /\ dm.pc = "mounted"
  /\ dm.n < MaxDmSteps
  /\ dm' = [dm EXCEPT !.map = Updater(dm.map, tileQuotes, Len(tileQuotes)),
                      !.n = @ + 1, !.applied = TRUE, !.prev = dm.map,
                      !.tiles = tileQuotes]
  /\ UNCHANGED <<stockVars, gen, mkt, pureVars, tile, rt, cal>>

\* part_019:187-199  fetchRangeForSymbol has its quote
DmRange(symbol, quote) ==
  /\ dm.pc = "mounted"
  /\ dm.n < MaxDmSteps
  /\ dm' = [dm EXCEPT !.map = SetProp(dm.map, symbol, quote),
                      !.n = @ + 1, !.applied = FALSE, !.prev = <<>>, !.tiles = <<>>]
  /\ UNCHANGED <<stockVars, gen, mkt, pureVars, tile, rt, cal>>

\* the component unmounts: its state is gone
DmUnmount ==
  /\ dm.pc = "mounted"
  /\ dm' = DmIdle
  /\ UNCHANGED <<stockVars, gen, mkt, pureVars, tile, rt, cal>>

-----------------------------------------------------------------------------
(* Spec: the stock cache and the fallback policy *)

Init ==
  /\ now = 0
  /\ mock \in BOOLEAN
  /\ CACHE = <<>>
  /\ pending = {}
  /\ last = Idle
  /\ calls = 0
  /\ warm = 0
  /\ evicted = NoEviction
  /\ gen = GenIdle
  /\ mkt = MktIdle
  /\ earn = EarnIdle
  /\ rngs = NoRngs
  /\ hash = HashIdle
  /\ ev = EvIdle
  /\ tile = TileInit
  /\ rt = RtInit
  /\ cal = CalIdle
  /\ dm = DmIdle

Next ==
  \/ \E op \in Ops, raw \in RawSymbols :
       \E range \in RangesOf(op), limit \in LimitsOf(op) : CallReject(op, raw, range, limit)
  \/ \E op \in Ops, raw \in RawSymbols :
       \E range \in RangesOf(op), limit \in LimitsOf(op) : CallHit(op, raw, range, limit)
  \/ \E op \in Ops, raw \in RawSymbols, out \in ProviderOutcomes \cup {"none"} :
       \E range \in RangesOf(op), limit \in LimitsOf(op) : CallMiss(op, raw, range, limit, out)
  \/ \E p \in pending : ResumeProviderData(p)
  \/ \E p \in pending : ResumeProviderThrow(p)
  \/ \E p \in pending : ResumeGenerated(p)
  \/ \E d \in TickSteps : Tick(d)

Spec == Init /\ [][Next]_vars

-----------------------------------------------------------------------------
(* CapSpec: the stock cache at its capacity, in mock mode.  The warm-up
   fills the cache; the calls are the ones for one symbol. *)

CapOps == {"getQuote"}
CapSymbols == {sAAPL}

CapInit == Init /\ mock

NextCap ==
  \/ \E op \in CapOps, raw \in CapSymbols :
       \E range \in RangesOf(op), limit \in LimitsOf(op) : CallHit(op, raw, range, limit)
  \/ \E op \in CapOps, raw \in CapSymbols :
       \E range \in RangesOf(op), limit \in LimitsOf(op) : CallMiss(op, raw, range, limit, "none")
  \/ \E p \in pending : ResumeGenerated(p)
  \/ \E d \in TickSteps : Tick(d)
  \/ Warm

CapSpec == CapInit /\ [][NextCap]_vars

-----------------------------------------------------------------------------
(* HistSpec: the history generator, for each symbol, range and clock *)

NextHist ==
  \/ \E symbol \in GenSymbols, range \in PriceRange, t \in GenNows : GenCall(symbol, range, t)
  \/ GenStep
  \/ GenReturn
  \/ GenDrop

HistSpec == Init /\ [][NextHist]_vars

-----------------------------------------------------------------------------
(* MarketSpec: getIndexQuote, for each index, range, environment and provider
   behaviour *)

NextMarket ==
  \/ \E symbol \in IndexSymbol, range \in RangeKey, env \in MktEnvs, t \in MktNows :
       MktCallMock(symbol, range, env, t)
  \/ \E symbol \in IndexSymbol, range \in RangeKey, env \in MktEnvs, t \in MktNows :
       MktCallProvider(symbol, range, env, t)
  \/ \E status \in HttpStatuses : MktRequestFails(status)
  \/ MktDelayOver
  \/ \E d \in Payloads : MktResponse(d)
  \/ \E t \in MktNows : MktCatch(t)
  \/ MktDrop

MarketSpec == Init /\ [][NextMarket]_vars

-----------------------------------------------------------------------------
(* EarnSpec: the earnings generator, for each day of a year and each zone *)

NextEarn ==
  \/ \E date \in EarnDates, zone \in Zones : EarnCall(sAAPL, date, zone)
  \/ EarnStep
  \/ EarnReturn
  \/ EarnDrop

EarnSpec == Init /\ [][NextEarn]_vars

-----------------------------------------------------------------------------
(* SurpriseSpec: computeSurprise on each pair of values *)

NextSurprise ==
  \/ \E a \in EpsValues, e \in EpsValues : EvSurprise(a, e)
  \/ EvDrop

SurpriseSpec == Init /\ [][NextSurprise]_vars

-----------------------------------------------------------------------------
(* RngSpec: closures of mulberry32 built and drawn from in any order *)

NextRng ==
  \/ \E seed \in Seeds : RngNew(seed)
  \/ \E id \in 1..Len(rngs.inst) : RngDraw(id)

RngSpec == Init /\ [][NextRng]_vars

-----------------------------------------------------------------------------
(* HashSpec: hashStringToInt on each string *)

NextHash ==
  \/ \E str \in HashStrings : HashCall(str)
  \/ HashStep
  \/ HashReturn
  \/ HashDrop

HashSpec == Init /\ [][NextHash]_vars

\* the five functions together, with the symbols they reject; the clock
\* stands still, so that no entry expires
ApiSymbols == {saapl} \cup RejectedSymbols

NextApi ==
  \/ \E op \in Ops, raw \in ApiSymbols :
       \E range \in RangesOf(op), limit \in LimitsOf(op) : CallReject(op, raw, range, limit)
  \/ \E op \in Ops, raw \in ApiSymbols :
       \E range \in RangesOf(op), limit \in LimitsOf(op) : CallHit(op, raw, range, limit)
  \/ \E op \in Ops, raw \in ApiSymbols, out \in ProviderOutcomes \cup {"none"} :
       \E range \in RangesOf(op), limit \in LimitsOf(op) : CallMiss(op, raw, range, limit, out)
  \/ \E raw \in ApiSymbols, range \in CallRanges, outQ \in ProviderOutcomes,
        outH \in ProviderOutcomes : OverviewCall(raw, range, outQ, outH)
  \/ \E p \in pending : ResumeProviderData(p)
  \/ \E p \in pending : ResumeProviderThrow(p)
  \/ \E p \in pending : ResumeGenerated(p)

ApiSpec == Init /\ [][NextApi]_vars

NextTile ==
  \/ \E symbols \in TileLists, opt \in TileOpts, env \in TileEnvs : TileCall(symbols, opt, env)
  \/ \E i \in 1..2, outcome \in QuoteOutcomes : TileResponse(i, outcome)
  \/ TileDrop
  \/ TileTick

\* the stock cache plays no part here: it stays in one of its initial states
TileStart == Init /\ mock

TileSpec == TileStart /\ [][NextTile]_vars

NextRt ==
  \/ RtCommit
  \/ \E t \in rt.timers : RtTimer(t)
  \/ RtAdvance
  \/ \E owner \in Owners, outcome \in FetchOutcomes : RtSettle(owner, outcome)
  \/ RtUnmount

RtSpec == TileStart /\ [][NextRt]_vars

\* timers fire and React commits: time passes, a timer that is due runs, and a
\* render whose retryCount changed gets its effect
RtFair ==
  /\ WF_vars(RtAdvance)
  /\ WF_vars(\E t \in rt.timers : RtTimer(t))
  /\ WF_vars(RtCommit)

RtLive == RtSpec /\ RtFair

-----------------------------------------------------------------------------
(* CalSpec: getEarnings, for each query, environment and zone *)

CalQueries ==
  [start : CalDates, end : CalDates, q : CalSearches, page : CalPages,
   perPage : CalPerPages]

NextCal ==
  \/ \E q \in CalQueries, mockEnv \in BOOLEAN, east \in BOOLEAN : CalCall(q, mockEnv, east)
  \/ CalStep
  \/ CalReturn
  \/ CalDrop

CalSpec == TileStart /\ [][NextCal]_vars

-----------------------------------------------------------------------------
(* DmSpec: MarketOverview's dataMap under tile updates and range changes *)

DmInitials == SeqsUpTo({DmQuote(symbol, 1) : symbol \in IndexSymbol}, 2)

\* the responses: up to two tiles, of any symbols, repeated ones included
DmUpdates == SeqsUpTo(DmTiles, 2)

NextDm ==
  \/ \E initialData \in DmInitials : DmMount(initialData)
  \/ \E tileQuotes \in DmUpdates : DmUpdate(tileQuotes)
  \/ \E symbol \in IndexSymbol, quote \in DmQuotes : quote.symbol = symbol /\ DmRange(symbol, quote)
  \/ DmUnmount

DmSpec == TileStart /\ [][NextDm]_vars

-----------------------------------------------------------------------------
(* The claims about the fallback policy and the cache (Spec, CapSpec) *)

\* C1: a call whose symbol sanitizeSymbol accepts never rejects: whatever the
\* provider does, the call resolves with a value of its kind, every suspended
\* call has a continuation, and after the provider threw the value is the
\* output of the function's generator for the sanitized symbol.
C1_NeverRejects ==
  /\ last.outcome = "rejected" => ~sanitizeSymbol(last.raw).ok
  /\ last.outcome = "resolved" =>
       /\ Truthy(last.result)
       /\ last.result.kind = KindOf(last.op)
       /\ last.symbol = sanitizeSymbol(last.raw).s
  /\ (last.outcome = "resolved" /\ last.provOutcome = "throw") =>
       /\ last.result.src = "mock"
       /\ last.result =
            Generate(last.op, sanitizeSymbol(last.raw).s, last.range, last.limit, last.genAt)
  /\ \A p \in pending : p.outcome \in {"provider", "gen"}

\* a call with a lower-case symbol resolved after the provider threw
C1_Witness ==
  /\ last.outcome = "resolved"
  /\ last.provOutcome = "throw"
  /\ last.raw = saapl
  /\ last.result.symbol = sAAPL

\* C2: a call that finds an unexpired entry under its key returns the stored
\* value at once, calls neither the provider nor a generator and leaves the
\* cache as it was; the second of two calls in immediate succession for the
\* same key returns what the first returned.
C2_HitReturnsStored ==
  /\ (last.outcome \in {"resolved", "suspended"} /\ last.found /\ last.age <= CACHE_TTL) =>
       /\ last.outcome = "resolved"
       /\ last.hit
       /\ last.result = last.held
       /\ last.provCalls = 0
       /\ last.genCalls = 0
       /\ last.cacheSame
  /\ (last.outcome \in {"resolved", "suspended"} /\ last.repeatOf # Null) =>
       /\ last.outcome = "resolved"
       /\ last.result = last.repeatOf

\* the second of two calls in immediate succession was a hit
C2_Witness == last.hit /\ last.repeatOf # Null /\ last.result = last.repeatOf

\* C3 as claimed: an entry read at age Delta is a hit exactly when Delta < TTL
C3_MissAtTtl ==
  (last.outcome \in {"resolved", "suspended"} /\ last.found) =>
    (last.hit <=> last.age < CACHE_TTL)

\* C3 as amended: an entry written at T and still in the map is a hit for every
\* read at T + Delta with Delta <= CACHE_TTL and a miss for Delta > CACHE_TTL.
C3_HitUpToTtl ==
  (last.outcome \in {"resolved", "suspended"} /\ last.found) =>
    (last.hit <=> last.age <= CACHE_TTL)

\* an entry read at the age of exactly CACHE_TTL, and returned
C3_Witness == last.found /\ last.age = CACHE_TTL /\ last.hit

\* C4 as claimed: setCache with MAX_CACHE + 1 distinct keys, from an empty
\* cache, leaves MAX_CACHE entries.
C4_BoundAfterOverfill ==
  (calls = 0 /\ warm = MAX_CACHE + 1) => Len(CACHE) = MAX_CACHE

\* C5 as claimed: the entry setCache evicts carries the smallest timestamp.
C5_EvictsSmallestTs == evicted.any => evicted.ts = evicted.minTs

\* C5 as amended: the entry setCache evicts is the first of the map's
\* iteration order: the one whose key entered the map first among the keys
\* present (its timestamp is the smallest unless a later setCache of the same
\* key refreshed it).
C5_EvictsFirstInserted ==
  evicted.any =>
    /\ evicted.since = evicted.minSince
    /\ evicted.ts # evicted.minTs => evicted.ts > evicted.since

\* an eviction of an entry whose timestamp a concurrent miss had refreshed
C5_Witness == evicted.any /\ evicted.ts > evicted.minTs

\* C6: a call that missed with mock mode on has not called the provider, has
\* called its generator once, and returns a value the cache holds under its key.
C6_MockMiss ==
  (last.outcome = "resolved" /\ ~last.hit /\ last.missMock) =>
    /\ last.provCalls = 0
    /\ last.genCalls = 1
    /\ last.result.kind = KindOf(last.op)
    /\ last.result.src = "mock"
    /\ last.stored

\* a getPriceHistory call that missed in mock mode and returned
C6_Witness ==
  /\ last.outcome = "resolved"
  /\ ~last.hit
  /\ last.missMock
  /\ last.op = "getPriceHistory"
  /\ last.stored

-----------------------------------------------------------------------------
(* The claims about the history generator (HistSpec) *)

\* C8 as claimed: the candles returned for a range are
\* max(10, ceil(duration / step)) in number, 365 for AAPL and 1Y.
C8_PointsCandles ==
  gen.pc = "done" =>
    /\ Len(gen.candles) = Max(10, Ceil(durationSec(gen.range), stepSec(gen.range)))
    /\ (gen.symbol = sAAPL /\ gen.range = "1Y") => Len(gen.candles) = 365

\* C9: the candles are in ascending time order, each one step after the one
\* before it, and the last one is at the Date.now() of the call.
C9_AscendingOneStepApart ==
  /\ gen.pc # "idle" => gen.step > 0
  /\ \A k \in 1..(Len(gen.candles) - 1) :
       /\ gen.candles[k].t < gen.candles[k + 1].t
       /\ gen.candles[k + 1].t - gen.candles[k].t = gen.step
  /\ gen.pc = "done" =>
       /\ Len(gen.candles) > 0
       /\ gen.candles[Len(gen.candles)].t = gen.now

\* a weekly history was returned
C9_Witness ==
  /\ gen.pc = "done"
  /\ gen.range = "5Y"
  /\ Len(gen.candles) > 10
  /\ gen.candles[2].t - gen.candles[1].t = 60 * 60 * 24 * 7

\* C10: in every candle, after the rounding to cents, high is at least the
\* larger of open and close and low is at most the smaller.
C10_HighLowBracket ==
  \A k \in 1..Len(gen.candles) :
    /\ gen.candles[k].h >= Max(gen.candles[k].o, gen.candles[k].c)
    /\ gen.candles[k].l <= Min(gen.candles[k].o, gen.candles[k].c)

\* a returned history with a rising candle, a falling candle, and a candle
\* whose high and low lie strictly outside open and close
C10_Witness ==
  /\ gen.pc = "done"
  /\ \E k \in 1..Len(gen.candles) : gen.candles[k].c > gen.candles[k].o
  /\ \E k \in 1..Len(gen.candles) : gen.candles[k].c < gen.candles[k].o
  /\ \E k \in 1..Len(gen.candles) :
       /\ gen.candles[k].h > Max(gen.candles[k].o, gen.candles[k].c)
       /\ gen.candles[k].l < Min(gen.candles[k].o, gen.candles[k].c)

-----------------------------------------------------------------------------
(* The claims about lib/market (MarketSpec) *)

\* the candle response Finnhub documents: status ok, and as many closes as
\* times, one at least, all of them numbers
WellFormed(d) ==
  /\ d.truthy /\ d.hasC /\ d.hasT
  /\ d.s = "ok"
  /\ Len(d.c) = Len(d.t)
  /\ Len(d.c) > 0
  /\ \A k \in 1..Len(d.c) : d.c[k].num /\ d.t[k].num

\* C7 as claimed: with mock mode off a call never ends in a rejection, and
\* after any provider failure (no provider, no key, unsupported provider, the
\* retries used up, a no_data, malformed or empty payload) the quote returned
\* is the synthetic one, with a history that is not empty, the index symbol
\* and its display name.
C7_SyntheticOnEveryFailure ==
  /\ mkt.pc \in {"idle", "request", "delay", "catch", "done"}
  /\ (mkt.pc = "done" /\ ~mkt.mock /\ (mkt.err # "" \/ (mkt.got /\ ~WellFormed(mkt.d)))) =>
       /\ mkt.result.src = "mock"
       /\ Len(mkt.result.history) > 0
       /\ mkt.result.symbol = mkt.symbol
       /\ mkt.result.name = SYMBOL_NAMES(mkt.symbol)

-----------------------------------------------------------------------------
(* The claims about the earnings generator (EarnSpec) *)

\* C11: generateMockEarnings returns 8 quarters whose report dates never
\* decrease from the first to the last, whatever the current date, the
\* month ends included where setMonth overflows into the next month.
C11_EightQuartersAscending ==
  earn.pc = "done" =>
    /\ Len(earn.quarters) = 8
    /\ \A k \in 1..(Len(earn.quarters) - 1) :
         earn.quarters[k].date <= earn.quarters[k + 1].date

\* quarters returned for a call on the 31st of May: the date three months
\* back has overflowed into March
C11_Witness ==
  /\ earn.pc = "done"
  /\ earn.now = Date(EarnYear, 4, 31)
  /\ \E k \in 1..Len(earn.quarters) : (earn.quarters[k].date \div 100) % 100 = 3

-----------------------------------------------------------------------------
(* The claims about computeSurprise (SurpriseSpec) *)

\* C12: computeSurprise throws nothing and divides by no zero; it returns
\* null when the actual or the estimate is null or undefined or the estimate
\* is 0, and otherwise the number nearest, in 1/100 of a percent, to
\* (actual - estimate) / |estimate| * 100.
C12_SurpriseOrNull ==
  ev.pc = "done" =>
    /\ ~ev.res.threw
    /\ ~ev.res.divZero
    /\ IF ev.a.k # "num" \/ ev.e.k # "num" \/ ev.e.v = 0
       THEN ev.res.value.k = "null"
       ELSE /\ ev.res.value.k = "num"
            /\ 2 * Abs((ev.res.value.v * Abs(ev.e.v)) - ((ev.a.v - ev.e.v) * 10000))
                 <= Abs(ev.e.v)

\* a call with an estimate of 0 and an actual that is not returned null, and
\* so did one with a negative estimate return a number
C12_Witness ==
  /\ ev.pc = "done"
  /\ ev.e.k = "num"
  /\ ev.a.k = "num"
  /\ \/ ev.e.v = 0 /\ ev.a.v # 0 /\ ev.res.value.k = "null"
     \/ ev.e.v < 0 /\ ev.a.v > 0 /\ ev.res.value.k = "num" /\ ev.res.value.v > 0

-----------------------------------------------------------------------------
(* The claims about the seeded RNG (RngSpec, HashSpec) *)

\* C13: two closures of mulberry32 built from the same seed have returned
\* the same value at every draw index both have reached, however their draws
\* were interleaved with each other and with the draws of other closures.
C13_SameSeedSameDraws ==
  \A i \in 1..Len(rngs.inst), j \in 1..Len(rngs.inst) :
    rngs.inst[i].seed = rngs.inst[j].seed =>
      \A k \in 1..Min(Len(rngs.inst[i].out), Len(rngs.inst[j].out)) :
        rngs.inst[i].out[k] = rngs.inst[j].out[k]

\* two closures of one seed with two draws each, and a closure of another
\* seed that has drawn too
C13_Witness ==
  \E i \in 1..Len(rngs.inst), j \in 1..Len(rngs.inst), k \in 1..Len(rngs.inst) :
    /\ i # j
    /\ rngs.inst[i].seed = rngs.inst[j].seed
    /\ rngs.inst[k].seed # rngs.inst[i].seed
    /\ Len(rngs.inst[i].out) >= 2
    /\ Len(rngs.inst[j].out) >= 2
    /\ Len(rngs.inst[k].out) >= 1
    /\ rngs.inst[i].out[1] # rngs.inst[i].out[2]
    /\ rngs.inst[k].out[1] # rngs.inst[i].out[1]


\* bit k of n
BitOf(n, k) == (n \div (2 ^ k)) % 2

\* a XOR b for two 16-bit numbers, as the sum of its bits
XorBits(a, b) ==
  LET x(k) == (2 ^ k) * ((BitOf(a, k) + BitOf(b, k)) % 2)
  IN  x(0) + x(1) + x(2) + x(3) + x(4) + x(5) + x(6) + x(7)
        + x(8) + x(9) + x(10) + x(11) + x(12) + x(13) + x(14) + x(15)

\* r = ((h XOR c) * 16777619) mod 2^32 for a code unit c, stated on the halves
\* of the words, the product as x * 403 + x * 2^24
FnvStepIs(h, c, r) ==
  LET xlo == XorBits(Lo(h), c)
  IN  /\ Lo(r) = (xlo * 403) % 65536
      /\ Hi(r) = (((xlo * 403) \div 65536) + (Hi(h) * 403) + ((xlo % 256) * 256)) % 65536

\* C14: hashStringToInt is the 32-bit FNV-1a fold: h starts at 2166136261
\* (0x811C 0x9DC5), each character takes h to ((h XOR code) * 16777619) mod
\* 2^32, the result is the last h and lies in [0, 2^32).
C14_FnvFold ==
  hash.pc # "idle" =>
    /\ hash.hs[1] = <<33052, 40389>>
    /\ Len(hash.hs) = hash.i + 1
    /\ hash.h = hash.hs[Len(hash.hs)]
    /\ \A k \in 1..hash.i : FnvStepIs(hash.hs[k], hash.s[k], hash.hs[k + 1])
    /\ Hi(hash.h) \in 0..65535 /\ Lo(hash.h) \in 0..65535
    /\ hash.pc = "done" => hash.i = Len(hash.s)

\* the hash of a three-character string returned, and the hash of the empty
\* string returned
C14_Witness ==
  /\ hash.pc = "done"
  /\ Len(hash.s) = 3
  /\ hash.s[1] = 65 /\ hash.s[2] = 8364 /\ hash.s[3] = 65535
  /\ hash.h # hash.hs[1]


-----------------------------------------------------------------------------
(* The claims about the index tiles (TileSpec) *)

\* the proxy ticker and the index name the claim spells out
ProxyTickerIs(symbol, ticker) ==
  \/ symbol = "^GSPC" /\ ticker = "SPY"
  \/ symbol = "^IXIC" /\ ticker = "QQQ"
  \/ symbol = "^DJI" /\ ticker = "DIA"

IndexNameIs(symbol, name) ==
  \/ symbol = "^GSPC" /\ name = "S&P 500"
  \/ symbol = "^IXIC" /\ name = "NASDAQ Composite"
  \/ symbol = "^DJI" /\ name = "Dow Jones Industrial Average"

ProxyCase ==
  /\ tile.pc \in {"fetching", "done"}
  /\ ~tile.env.mock
  /\ tile.mode = "ETF_PROXY" \/ tile.env.provider = "FINNHUB"

-----------------------------------------------------------------------------
(* The claims about the realtime refresher (RtSpec, RtLive) *)

\* the waits the claim spells out: 15 s, 30 s, then 60 s
ClaimedBackoff(n) == IF n = 1 THEN 15000 ELSE IF n = 2 THEN 30000 ELSE 60000

\* C16: a fetch that starts while the retry count stands at n >= 1 after a
\* 429 starts no sooner than min(15000 * 2^(n-1), 60000) ms after that 429;
\* a fetch that starts while the retry count is 0 starts the refresh interval
\* of 5000 ms after the fetch before it.
C16_BackoffBeforeNextFetch ==
  rt.lastStart.any =>
    /\ rt.lastStart.n >= 1 => rt.lastStart.elapsed >= ClaimedBackoff(rt.lastStart.n)
    /\ rt.lastStart.n = 0 /\ ~rt.lastStart.first => rt.lastStart.wait = 5000

\* C17: no timer of an effect instance whose cleanup has run is pending, no
\* fetch was ever started by the closures of such an instance, and once the
\* component is gone no timer is pending at all.
C17_NothingScheduledAfterTeardown ==
  /\ \A t \in rt.timers : t.owner = "live"
  /\ ~rt.deadStart
  /\ ~rt.run => rt.timers = {}
  /\ ~rt.mounted => ~rt.run

\* the component has gone away with two fetches in flight, and one of them has
\* just resolved
C17_Witness ==
  /\ ~rt.mounted
  /\ rt.settled.dead
  /\ InFlight(rt) > 0

\* C18: when a fetch resolves whose effect instance has been cleaned up,
\* dataMap, retryCount and realtimeLoading are what they were.
C18_DeadResultDiscarded ==
  rt.settled.dead => ~rt.settled.changed

\* C19: at most one fetch is unresolved at any moment.
C19_OneInFlight == InFlight(rt) <= 1

\* C20: no error escapes fetchQuotes, and while the component stays mounted a
\* failed fetch is followed by the start of another fetch.
C20_CaughtAndRetried ==
  /\ [](~rt.escaped)
  /\ (rt.owed /\ rt.mounted) ~> (~rt.owed \/ ~rt.mounted)

\* a fetch has started after a fetch failed, in a component still mounted
C20_Witness ==
  /\ rt.mounted
  /\ rt.lastStart.any
  /\ rt.lastStart.owed
  /\ ~rt.owed


-----------------------------------------------------------------------------
(* The claims about invalid input and the fallback policy (ApiSpec, ...) *)

\* a code unit of [A-Z0-9.-]
InSymbolClass(c) == c \in (65..90) \cup (48..57) \cup {45, 46}

\* the symbols the claim speaks of: empty, or with a code unit outside the
\* class once a-z have been raised to A-Z
ClaimedInvalid(raw) ==
  \/ Len(raw) = 0
  \/ \E i \in 1..Len(raw) :
       ~InSymbolClass(IF raw[i] \in 97..122 THEN raw[i] - 32 ELSE raw[i])

\* C21: a call of getQuote, getPriceHistory, getEarningsHistory, getNews or
\* getStockOverview with an empty symbol, or one that holds a character outside
\* [A-Z0-9.-] after upper-casing, rejects: it has found nothing in the cache,
\* left the cache as it was, called neither the provider nor a generator, and
\* left no call suspended.
C21_InvalidSymbolRejectedFirst ==
  (last.op # "none" /\ ClaimedInvalid(last.raw)) =>
    /\ last.outcome = "rejected"
    /\ ~last.found /\ ~last.hit
    /\ last.cacheSame /\ ~last.stored
    /\ last.provCalls = 0 /\ last.genCalls = 0
    /\ \A p \in pending : ~ClaimedInvalid(p.raw)
    /\ \A i \in 1..Len(CACHE) : CACHE[i].value.symbol # last.raw

\* getStockOverview has rejected "A" followed by a line feed while another call
\* was suspended
C21_Witness ==
  /\ last.op = "getStockOverview"
  /\ last.raw = <<65, 10>>
  /\ last.outcome = "rejected"
  /\ pending # {}

-----------------------------------------------------------------------------
(* The claims about the earnings calendar (CalSpec) *)

\* what the claims call out of range: page < 1, perPage outside [1, 50]
PageOutOfRange(q) == q.page.k = "num" /\ q.page.v < 2
PerPageOutOfRange(q) == q.perPage.k = "num" /\ (q.perPage.v < 2 \/ q.perPage.v > 100)

\* what the claims call a valid date range
ValidRange(q) == q.start # 0 /\ q.end # 0 /\ q.start <= q.end

\* C22 (as stated): getEarnings rejects, with an error and without generating
\* any events, every request whose pagination parameters are out of range:
\* page < 1 or perPage outside [1, 50].
C22_OutOfRangePaginationRejected ==
  (cal.pc # "idle" /\ (PageOutOfRange(cal.q) \/ PerPageOutOfRange(cal.q))) =>
    /\ ~cal.generator
    /\ cal.events = <<>>
    /\ cal.pc = "done" /\ cal.outcome = "rejected"

\* the values getEarnings works with, restated from the query alone
CoercedPage(x) == IF x.k = "num" /\ x.v > 0 THEN (x.v - (x.v % 2)) \div 2 ELSE 1
CoercedPerPage(x) ==
  IF x.k # "num" \/ x.v = 0 THEN 25
  ELSE IF x.v < 2 THEN 1
  ELSE IF x.v > 100 THEN 50
  ELSE (x.v - (x.v % 2)) \div 2

\* C22 (amended): getEarnings never rejects a request for its pagination.  It
\* replaces a page that is not a positive number by 1 and rounds a positive
\* one down (to 0 below 1), replaces a missing, NaN or zero perPage by 25 and
\* brings any other into [1, 50], rejects exactly the requests with an invalid
\* date or with start after end, and in mock mode generates the events of a
\* valid range whatever the pagination is, returning at most perPage of them.
C22_PaginationCoerced ==
  cal.pc # "idle" =>
    /\ cal.page = CoercedPage(cal.q.page)
    /\ cal.perPage = CoercedPerPage(cal.q.perPage)
    /\ cal.perPage \in 1..50
    /\ cal.pc = "done" => (cal.outcome = "rejected" <=> ~ValidRange(cal.q))
    /\ (cal.pc = "done" /\ ValidRange(cal.q) /\ cal.mock) =>
         /\ cal.generator /\ cal.events # <<>>
         /\ Len(cal.items) <= cal.perPage
         /\ cal.total <= Len(cal.events)

C22_Witness ==
  /\ cal.pc = "done" /\ cal.outcome = "resolved"
  /\ cal.q.page = Js("num", -2) /\ cal.q.perPage = Js("num", 102)
  /\ cal.page = 1 /\ cal.perPage = 50
  /\ cal.items # <<>>

\* C23: under the fallback policy no data kind yields a "no data" result for
\* a valid request: with mock mode off and the provider unavailable getQuote
\* returns a quote, getPriceHistory at least one candle, getEarningsHistory 8
\* quarters, getNews(limit >= 1) limit items, and getEarnings for a valid
\* date range (start <= end) a non-empty list of synthetic earnings events.
C23_NeverNoData ==
  /\ (last.op \in {"getQuote", "getPriceHistory", "getEarningsHistory", "getNews"}
        /\ ~mock /\ sanitizeSymbol(last.raw).ok /\ last.outcome # "suspended") =>
       /\ last.outcome = "resolved"
       /\ Truthy(last.result) /\ last.result.kind = KindOf(last.op)
  /\ (cal.pc = "done" /\ ValidRange(cal.q) /\ ~cal.mock) =>
       /\ cal.outcome = "resolved"
       /\ cal.items # <<>>
       /\ cal.total >= 1

-----------------------------------------------------------------------------
(* The claims about the retry count (RtSpec) *)

\* C24: while the component is mounted, retryCount increases by exactly 1 for
\* each fetch that ends with HTTP 429 (of the live effect instance or of a
\* cleaned-up one), is left unchanged by every other failure, and is 0 after
\* any fetch that succeeds while its effect instance is alive.
C24_RetryCountSteps ==
  (rt.settled.ended # "none" /\ rt.mounted) =>
    /\ rt.settled.ended = "429" => rt.retryCount = rt.settled.before + 1
    /\ rt.settled.ended = "failure" => rt.retryCount = rt.settled.before
    /\ (rt.settled.ended = "tiles" /\ ~rt.settled.dead) => rt.retryCount = 0

C24_Witness ==
  /\ rt.mounted
  /\ rt.settled.ended = "tiles" /\ ~rt.settled.dead
  /\ rt.settled.before >= 1
  /\ rt.retryCount = 0

-----------------------------------------------------------------------------
(* The claims about requestWithRetry (MarketSpec) *)

\* the waits of the claim, by the number of the failed attempt (from 0)
ClaimedWait(status, i) ==
  IF status = 429 THEN <<500, 1000, 2000>>[i + 1] ELSE <<250, 500, 750>>[i + 1]

\* C25: requestWithRetry (retries = 2) makes at most 3 attempts; it returns
\* the first successful response without a further attempt; after a failed
\* attempt i that is not the last it waits 500 * 2^i ms when the status is 429
\* and 250 * (i + 1) ms otherwise; after the last failed attempt it rethrows
\* that attempt's error without waiting; the throw of 'Unreachable' after the
\* loop is never executed.
C25_BoundedRetries ==
  /\ mkt.attempts <= 3
  /\ mkt.attempts = Len(mkt.failed) + (IF mkt.got THEN 1 ELSE 0)
  /\ mkt.got => mkt.pc \in {"catch", "done"}
  /\ \A k \in 1..Len(mkt.waited) : mkt.waited[k] = ClaimedWait(mkt.failed[k], k - 1)
  /\ Len(mkt.waited) = IF Len(mkt.failed) = 3 THEN 2 ELSE Len(mkt.failed)
  /\ Len(mkt.failed) = 3 <=> mkt.thrown # <<>>
  /\ mkt.thrown # <<>> =>
       /\ mkt.thrown = <<mkt.failed[3]>>
       /\ ~mkt.got
       /\ mkt.pc \in {"catch", "done"}
  /\ mkt.err # "Unreachable"

C25_Witness ==
  /\ mkt.failed = <<429, 500, 429>>
  /\ mkt.waited = <<500, 500>>
  /\ mkt.thrown = <<429>>
  /\ mkt.attempts = 3

-----------------------------------------------------------------------------
(* The claims about the tiles of a failing provider and the tile cache
   (TileSpec) *)

\* a tile built from defaulted values: a provider tile without a price
Defaulted(t) == t.src = "provider" /\ ~t.priced

\* C26: with mock mode off, a provider quote response that is malformed or
\* empty (price and change fields missing) is treated as provider unavailable:
\* the tile returned for that symbol is the synthetic tile of
\* generateMockTileQuote, never a tile built from defaulted values such as
\* price 0.
C26_EmptyQuoteFallsBack ==
  /\ \A k \in 1..Len(tile.slots) : ~Defaulted(tile.slots[k])
  /\ \A k \in 1..Len(tile.result) : ~Defaulted(tile.result[k])
  /\ \A e \in 1..Len(tile.cache) :
       \A k \in 1..Len(tile.cache[e].data) : ~Defaulted(tile.cache[e].data[k])

\* the key of the call in progress, and whether the entry stored under it has
\* outlived CACHE_TTL_MS
CallKey == <<tile.symbols, tile.mode, tile.env.mock>>
ExpiredTileEntry(e) == tile.now - e.timestamp >= CACHE_TTL_MS

\* C27: the tile cache is a bounded store with expiry and eviction: an entry
\* older than its 1-second TTL is removed when it is next read, so that once a
\* call has read the cache and gone on to fetch, no expired entry is left
\* under its key (and the number of entries stays below a fixed bound).
C27_ExpiredTileRemovedOnRead ==
  tile.pc = "fetching" =>
    \A e \in 1..Len(tile.cache) :
      tile.cache[e].key = CallKey => ~ExpiredTileEntry(tile.cache[e])

-----------------------------------------------------------------------------
(* The claims about the size of the stock cache (CapSpec) *)

KeysOf(C) == {C[i].key : i \in 1..Len(C)}

\* the first place at which the map after a step differs in its key from the
\* map before it (past the end when it does not)
FirstGap ==
  CHOOSE d \in 1..(Len(CACHE) + 1) :
    d > Len(CACHE) \/ d > Len(CACHE') \/ CACHE[d].key # CACHE'[d].key

\* the entries after place d have all moved up by one
MovedUp(d) ==
  /\ Len(CACHE') >= Len(CACHE) - 1
  /\ \A i \in (d + 1)..Len(CACHE) : CACHE[i].key = CACHE'[i - 1].key

\* the keys a step takes out of the map: KeysOf(CACHE) \ KeysOf(CACHE'), found
\* without building the two sets when the step has left the map alone, has only
\* added to it, or has taken one entry out
Removed ==
  IF CACHE' = CACHE THEN {}
  ELSE IF FirstGap > Len(CACHE) THEN {}
  ELSE IF MovedUp(FirstGap)
  THEN {CACHE[FirstGap].key} \ {CACHE'[j].key : j \in Len(CACHE)..Len(CACHE')}
  ELSE KeysOf(CACHE) \ KeysOf(CACHE')

\* the entry of C under key is older than CACHE_TTL at time t
OlderThanTtl(C, key, t) == \E i \in 1..Len(C) : C[i].key = key /\ t - C[i].ts > CACHE_TTL

\* C28: after any sequence and interleaving of getCache and setCache calls the
\* map never holds more than MAX_CACHE + 1 = 201 entries; a step that ends in
\* setCache (the resumption of a call, a warm-up call) takes at most one key
\* out, the first of the map, and only from a map of more than MAX_CACHE
\* entries; a step that only calls getCache (the start of a call) takes out at
\* most the entry under the key it was asked for, and only when that entry is
\* older than CACHE_TTL; no other step takes anything out.
C28_BoundedRemovals ==
  [][/\ Len(CACHE') <= 201
     /\ Cardinality(Removed) <= 1
     /\ calls' = calls + 1 =>
          \A k \in Removed : k = last'.key /\ OlderThanTtl(CACHE, k, now)
     /\ (calls' = calls /\ Removed # {}) =>
          /\ Len(CACHE) > 200
          /\ Removed = {CACHE[1].key}
          /\ now' = now]_vars

\* a setCache on a map of 201 entries has evicted one and left 201
C28_Witness == Len(CACHE) = 201 /\ evicted.any

-----------------------------------------------------------------------------
(* The claims about dataMap (DmSpec) *)

\* the symbols an update names
Named(tileQuotes) == {tileQuotes[i].symbol : i \in 1..Len(tileQuotes)}

\* C29: applying a realtime tile update changes only the price, change,
\* changePercent and lastUpdated fields of symbols already present in dataMap:
\* the history, name and symbol of each are unchanged, an entry whose symbol
\* the update does not name is unchanged altogether, no entry is added for a
\* symbol not already present, and no entry is removed.
C29_OnlyPriceFieldsChange ==
  dm.applied =>
    /\ DOMAIN dm.map = DOMAIN dm.prev
    /\ \A k \in DOMAIN dm.prev :
         /\ dm.map[k].history = dm.prev[k].history
         /\ dm.map[k].name = dm.prev[k].name
         /\ dm.map[k].symbol = dm.prev[k].symbol
         /\ k \notin Named(dm.tiles) => dm.map[k] = dm.prev[k]

C29_Witness ==
  /\ dm.applied
  /\ \E k \in DOMAIN dm.prev : dm.map[k].price # dm.prev[k].price
  /\ \E k \in Named(dm.tiles) : k \notin DOMAIN dm.prev
  /\ \E k \in DOMAIN dm.prev : k \notin Named(dm.tiles)

-----------------------------------------------------------------------------
(* The claims about the fiscal periods (EarnSpec) *)

\* the label `Q${qnum} ${year}` as a count of quarters
LabelIndex(quarter) == (quarter.year * 4) + quarter.q

\* C30: the 8 quarters generateMockEarnings returns carry 8 pairwise distinct
\* fiscal-period labels, each the calendar quarter right after that of the
\* element before it, for every current date, the 29th to the 31st of a month
\* included, where stepping back 3 months overflows into the next month.
C30_ConsecutiveFiscalPeriods ==
  earn.pc = "done" =>
    /\ Len(earn.quarters) = 8
    /\ \A j, k \in 1..Len(earn.quarters) :
         j # k => LabelIndex(earn.quarters[j]) # LabelIndex(earn.quarters[k])
    /\ \A k \in 1..(Len(earn.quarters) - 1) :
         LabelIndex(earn.quarters[k + 1]) = LabelIndex(earn.quarters[k]) + 1

====
